---- MODULE Spec2Model ----
(***************************************************************************)
(* State-machine model of the SSB spoofer orchestrator                     *)
(* (src/ssb-spoofer/src/main.cpp): main, scan_for_ssb and                  *)
(* transmit_spoofed_ssb, driven by a nondeterministic RF transport and PHY *)
(* codec, with the asynchronous signal handler that clears `running`.      *)
(*                                                                         *)
(* One step of the model is one stretch of code between two blocking       *)
(* transport calls (receive, transmit): the loop head together with the    *)
(* start of the call, and the return of the call together with the rest    *)
(* of the loop body.  The signal handler may run between any two steps,    *)
(* in particular while a call is in progress.                              *)
(***************************************************************************)
EXTENDS Integers, Sequences, FiniteSets, TLC

(***************************************************************************)
(* Bounds of the model                                                     *)
(***************************************************************************)
\* small burst limits 0..MaxBurstsSmall are explored next to two limits
\* beyond the range of int
MaxBurstsSmall == 2
\* transmit calls explored in one campaign (caps the unlimited campaign)
MaxTxCalls == 12
\* clock ticks that may pass between start_rx and the end of the flush
MaxPreTicks == 1
\* largest configured scan duration, in clock ticks
MaxScanDuration == 2

(***************************************************************************)
(* Program constants                                                       *)
(***************************************************************************)
max_consecutive_errors == 10
FlushCount == 10
\* sample rate of the modelled configuration: 3 samples per 1 ms chunk
SrateHz == 3000
\* samples produced by generate_ssb on success (one subframe)
SubframeSize == 2

Min(a, b) == IF a < b THEN a ELSE b

(***************************************************************************)
(* 64-bit unsigned values are kept as hi * 2^31 + lo with 0 <= lo < 2^31,  *)
(* so that values beyond the range of int can be written down.             *)
(***************************************************************************)
Two30 == 2^30

U64(h, l) == [hi |-> h, lo |-> l]

U64IsZero(u) == u.hi = 0 /\ u.lo = 0

\* (int)u : the low 32 bits of u read as a two's complement number
ToInt32(u) == IF u.hi % 2 = 1 THEN (u.lo - Two30) - Two30 ELSE u.lo

\* u = n for an int n >= 0
U64EqualsNat(u, n) == u.hi = 0 /\ u.lo = n

MaxBurstsValues ==
    {U64(0, n) : n \in 0..MaxBurstsSmall} \cup {U64(1, 0), U64(2, 2)}

(***************************************************************************)
(* Configurations (created once, immutable)                                *)
(***************************************************************************)
Configs ==
    [rf        : [srate_hz : {SrateHz}],
     attack    : [continuous_tx     : BOOLEAN,
                  max_bursts        : MaxBurstsValues,
                  burst_interval_us : {0, 500},
                  burst_length_ms   : {1}],
     operation : [scan_duration_sec : {MaxScanDuration},
                  save_samples      : BOOLEAN]]

VARIABLES
    config,             \* the loaded Config
    pc,                 \* position of the single thread of control
    running,            \* std::atomic<bool> running
    rf_initialized,     \* RfHandler::initialized_
    now,                \* std::chrono::steady_clock, in ticks
    start_time,         \* scan_for_ssb: start_time
    flush_i,            \* scan_for_ssb: counter of the flush loop
    search_buffer_pos,  \* scan_for_ssb: window cursor
    sample_file,        \* scan_for_ssb: the sample sink stream
    result_found,       \* result.found of the last search
    scan_ret,           \* value returned by scan_for_ssb
    rx_stream,          \* RX stream of the transport
    tx_stream,          \* TX stream of the transport
    nsamples,           \* transmit_spoofed_ssb: samples per burst
    tx_count,           \* transmit_spoofed_ssb: tx_count
    consecutive_errors, \* transmit_spoofed_ssb: consecutive_errors
    is_start,           \* start_of_burst of the transmit call in progress
    is_end,             \* end_of_burst of the transmit call in progress
    stats_bursts,       \* "Bursts Sent" of the final statistics (-1: none)
    tx_ret,             \* value returned by transmit_spoofed_ssb
    exit_code,          \* value returned by main (-1: still running)
    \* history of the run, read by no action's guard or assignment
    h_tx_calls,         \* transmit calls started in the continuous loop
    h_tx_ok,            \* of these, calls that returned >= 0
    h_streak,           \* length of the current run of failed calls
    h_max_streak,       \* longest run of failed calls so far
    h_sob_calls,        \* continuous transmit calls with start_of_burst
    h_aborted,          \* the loop was left by the error-threshold break
    h_cancel_seen,      \* loop that observed running = false
    h_ever_found,       \* some search reported found
    h_sink_written,     \* some received chunk was written to the sample sink
    h_prepare,          \* how the preparation of the burst ended
    h_init,             \* what failed in the latest initialization step
    nsent,              \* single-shot mode: result of the transmit call
    pure                \* a pure operation under study: inputs and results

vars == <<config, pc, running, rf_initialized, now, start_time, flush_i, search_buffer_pos,
          sample_file, result_found, scan_ret, rx_stream, tx_stream,
          nsamples, tx_count, consecutive_errors, is_start, is_end,
          stats_bursts, tx_ret, exit_code,
          h_tx_calls, h_tx_ok, h_streak, h_max_streak, h_sob_calls,
          h_aborted, h_cancel_seen, h_ever_found, h_sink_written, h_prepare,
          h_init, nsent, pure>>

\* everything but the pure operation under study
mainVars == <<config, pc, running, rf_initialized, now, start_time, flush_i,
              search_buffer_pos, sample_file, result_found, scan_ret,
              rx_stream, tx_stream, nsamples, tx_count, consecutive_errors,
              is_start, is_end, stats_bursts, tx_ret, exit_code,
              h_tx_calls, h_tx_ok, h_streak, h_max_streak, h_sob_calls,
              h_aborted, h_cancel_seen, h_ever_found, h_sink_written,
              h_prepare, h_init, nsent>>

scanVars == <<start_time, flush_i, search_buffer_pos, sample_file,
              result_found, scan_ret, rx_stream>>
txVars   == <<tx_stream, nsamples, tx_count, consecutive_errors, is_start,
              is_end, stats_bursts, tx_ret>>
histTx   == <<h_tx_calls, h_tx_ok, h_streak, h_max_streak, h_sob_calls,
              h_aborted>>

\* samples_per_iter and search_buffer_size of scan_for_ssb
samples_per_iter   == SrateHz \div 1000
search_buffer_size == SrateHz \div 100

\* no pure operation is under study
NoPure == [op |-> "none"]

\* the state of the program when main starts
InitMain ==
    /\ pc = "load_config"
    /\ running = TRUE
    /\ rf_initialized = FALSE
    /\ now = 0
    /\ start_time = 0
    /\ flush_i = 0
    /\ search_buffer_pos = 0
    /\ sample_file = "unopened"
    /\ result_found = FALSE
    /\ scan_ret = FALSE
    /\ rx_stream = "idle"
    /\ tx_stream = "idle"
    /\ nsamples = 0
    /\ tx_count = 0
    /\ consecutive_errors = 0
    /\ is_start = FALSE
    /\ is_end = FALSE
    /\ stats_bursts = -1
    /\ tx_ret = FALSE
    /\ exit_code = -1
    /\ h_tx_calls = 0
    /\ h_tx_ok = 0
    /\ h_streak = 0
    /\ h_max_streak = 0
    /\ h_sob_calls = 0
    /\ h_aborted = FALSE
    /\ h_cancel_seen = "none"
    /\ h_ever_found = FALSE
    /\ h_sink_written = FALSE
    /\ h_prepare = "none"
    /\ h_init = "none"
    /\ nsent = 0

Init ==
    /\ config \in Configs
    /\ InitMain
    /\ pure = NoPure

(***************************************************************************)
(* Decisions of the code, one operator per condition                       *)
(***************************************************************************)
\* mutant: the scan loop does not look at the flag
ScanLoopContinues_Always(run) == TRUE

\* scan_for_ssb: while (running)
ScanLoopContinues(run) == run

\* mutant: the deadline is never found to be exceeded
TimedOut_Never(elapsed, duration) == FALSE

\* scan_for_ssb: elapsed_sec > config.operation.scan_duration_sec
TimedOut(elapsed, duration) == elapsed > duration

\* mutant: a failed receive is handled like a successful one
ReceiveFailed_Never(nrecv) == FALSE

\* scan_for_ssb: if (nrecv <= 0) { sleep 10 ms; continue; }
ReceiveFailed(nrecv) == nrecv <= 0

\* mutant: a chunk that does not fit the room left is not copied at all
SamplesToCopy_NoneAtEdge(nrecv, pos) ==
    IF nrecv > search_buffer_size - pos THEN 0 ELSE nrecv

\* mutant: the copy is not limited to the room left in the window
SamplesToCopy_Unclamped(nrecv, pos) == nrecv

\* scan_for_ssb: std::min((uint32_t)nrecv, search_buffer_size - search_buffer_pos)
SamplesToCopy(nrecv, pos) == Min(nrecv, search_buffer_size - pos)

\* mutant: the window is taken as full one sample early
WindowFull_OneShort(pos) == pos >= search_buffer_size - 1

\* scan_for_ssb: search_buffer_pos >= search_buffer_size
WindowFull(pos) == pos >= search_buffer_size

\* std::ofstream sample_file leaves scope: its destructor closes the file
CloseOnReturn(f) == IF f = "open" THEN "closed" ELSE f

\* mutant: max_bursts = 0 is not taken as "unlimited"
LoopContinues_NoUnlimited(run, max_bursts, count) ==
    run /\ count < ToInt32(max_bursts)

\* transmit_spoofed_ssb: condition of the continuous while loop
LoopContinues(run, max_bursts, count) ==
    run /\ (U64IsZero(max_bursts) \/ count < ToInt32(max_bursts))

\* mutant: start of burst is still asserted after the first success
IsStartOfBurst_UpToOne(count) == count <= 1

\* transmit_spoofed_ssb: bool is_start = (tx_count == 0)
IsStartOfBurst(count) == count = 0

\* mutant: end of burst is asserted whatever the gap
IsEndOfBurst_Always(interval_us) == TRUE

\* transmit_spoofed_ssb: bool is_end = (config.attack.burst_interval_us > 0)
IsEndOfBurst(interval_us) == interval_us > 0

\* mutant: a call that sent nothing is an error too
TransmitFailed_OnZero(n) == n <= 0

\* transmit_spoofed_ssb, continuous loop: if (nsent < 0)
TransmitFailed(n) == n < 0

\* mutant: the loop is left one error later
ErrorThresholdReached_OneLater(errors) == errors > max_consecutive_errors

\* transmit_spoofed_ssb: consecutive_errors >= max_consecutive_errors
ErrorThresholdReached(errors) == errors >= max_consecutive_errors

\* mutant: a successful call does not reset the error counter
ErrorsAfterSuccess_Kept(errors) == errors

\* transmit_spoofed_ssb: consecutive_errors = 0 after a call that returned >= 0
ErrorsAfterSuccess(errors) == 0

\* transmit_spoofed_ssb: value returned after the continuous loop
ReturnAfterLoop == TRUE

\* main: exit status after scan_for_ssb / transmit_spoofed_ssb returned ok
ExitStatus(ok) == IF ok THEN 0 ELSE 1

\* upper end of the modelled clock: one tick past the scan deadline
ClockCap == start_time + config.operation.scan_duration_sec + 1

(***************************************************************************)
(* signal_handler: running = false                                         *)
(***************************************************************************)
Cancel ==
    /\ pc # "exit"
    /\ running
    /\ running' = FALSE
    /\ UNCHANGED <<config, pure, h_prepare, h_init, nsent, pc, rf_initialized, now, scanVars, txVars,
                   exit_code, histTx, h_cancel_seen, h_ever_found, h_sink_written>>

(***************************************************************************)
(* the monotonic clock advances                                            *)
(***************************************************************************)
Tick ==
    /\ \/ pc = "flush" /\ now < MaxPreTicks
       \/ pc \in {"scan_loop", "scan_recv", "scan_search"} /\ now < ClockCap
    /\ now' = now + 1
    /\ UNCHANGED <<config, pure, h_prepare, h_init, nsent, pc, running, rf_initialized, scanVars, txVars,
                   exit_code, histTx, h_cancel_seen, h_ever_found, h_sink_written>>

(***************************************************************************)
(* main, up to the call of scan_for_ssb                                    *)
(***************************************************************************)
\* ConfigParser::load_from_file fails (return 1) or succeeds
LoadConfig ==
    /\ pc = "load_config"
    /\ \E ok \in BOOLEAN :
          IF ok THEN pc' = "rf_init" /\ exit_code' = exit_code /\ h_init' = "none"
                ELSE /\ pc' = "exit"
                     /\ exit_code' = ExitStatus(FALSE)
                     /\ h_init' = "config"
    /\ UNCHANGED <<config, pure, h_prepare, nsent, running, rf_initialized, now, scanVars, txVars,
                   histTx, h_cancel_seen, h_ever_found, h_sink_written>>

\* mutant: init goes on after the device could not be opened
RfInitOk_IgnoresOpen(open_ok, rx_gain_ok, tune_ok, tx_gain_ok) ==
    rx_gain_ok /\ tx_gain_ok

\* RfHandler::init: the value returned.  Only srsran_rf_open and the two
\* gain setters are tested; the value returned by the sample-rate and
\* frequency setters is printed or dropped.
RfInitOk(open_ok, rx_gain_ok, tune_ok, tx_gain_ok) ==
    open_ok /\ rx_gain_ok /\ tx_gain_ok

\* the first step of RfHandler::init that did not succeed
RfInitFailure(open_ok, rx_gain_ok, tune_ok, tx_gain_ok) ==
    IF ~open_ok THEN "rf_open"
    ELSE IF ~rx_gain_ok THEN "rf_gain"
    ELSE IF ~tune_ok THEN "rf_tune"
    ELSE IF ~tx_gain_ok THEN "rf_gain"
    ELSE "none"

\* rf.init(config.rf) fails (return 1) or sets initialized_
RfInit ==
    /\ pc = "rf_init"
    /\ \E open_ok \in BOOLEAN, rx_gain_ok \in BOOLEAN,
          tune_ok \in BOOLEAN, tx_gain_ok \in BOOLEAN :
          /\ h_init' = RfInitFailure(open_ok, rx_gain_ok, tune_ok, tx_gain_ok)
          /\ IF RfInitOk(open_ok, rx_gain_ok, tune_ok, tx_gain_ok)
             THEN /\ pc' = "ssb_init"
                  /\ rf_initialized' = TRUE
                  /\ exit_code' = exit_code
             ELSE /\ pc' = "exit"
                  /\ rf_initialized' = FALSE
                  /\ exit_code' = ExitStatus(FALSE)
    /\ UNCHANGED <<config, pure, h_prepare, nsent, running, now, scanVars, txVars,
                   histTx, h_cancel_seen, h_ever_found, h_sink_written>>

\* ssb_proc.init(...) fails (return 1) or succeeds
SsbInit ==
    /\ pc = "ssb_init"
    /\ \E ok \in BOOLEAN :
          IF ok THEN pc' = "scan_open" /\ exit_code' = exit_code /\ h_init' = "none"
                ELSE /\ pc' = "exit"
                     /\ exit_code' = ExitStatus(FALSE)
                     /\ h_init' = "codec"
    /\ UNCHANGED <<config, pure, h_prepare, nsent, running, rf_initialized, now, scanVars, txVars,
                   histTx, h_cancel_seen, h_ever_found, h_sink_written>>

(***************************************************************************)
(* scan_for_ssb                                                            *)
(***************************************************************************)
\* open the sample sink if enabled, then start the RX stream
ScanStart ==
    /\ pc = "scan_open"
    /\ \E opened \in BOOLEAN, started \in BOOLEAN :
          LET f == IF config.operation.save_samples /\ opened
                   THEN "open" ELSE "unopened"
          IN  IF rf_initialized /\ started
              THEN /\ rx_stream' = "started"
                   /\ sample_file' = f
                   /\ flush_i' = 0
                   /\ scan_ret' = scan_ret
                   /\ pc' = "flush"
              ELSE /\ rx_stream' = rx_stream
                   /\ sample_file' = CloseOnReturn(f)
                   /\ flush_i' = flush_i
                   /\ scan_ret' = FALSE
                   /\ pc' = "scan_returned"
    /\ UNCHANGED <<config, pure, h_prepare, h_init, nsent, running, rf_initialized, now, start_time,
                   search_buffer_pos, result_found, txVars, exit_code,
                   histTx, h_cancel_seen, h_ever_found, h_sink_written>>

\* one receive call of the flush loop; its result is discarded
FlushRecv ==
    /\ pc = "flush"
    /\ flush_i < FlushCount
    /\ flush_i' = flush_i + 1
    /\ UNCHANGED <<config, pure, h_prepare, h_init, nsent, pc, running, rf_initialized, now, start_time,
                   search_buffer_pos, sample_file, result_found, scan_ret,
                   rx_stream, txVars, exit_code, histTx, h_cancel_seen,
                   h_ever_found, h_sink_written>>

\* mutant: the deadline clock is read before the flush, not after it
FlushDone_ClockFromStart ==
    /\ pc = "flush"
    /\ flush_i >= FlushCount
    /\ pc' = "scan_loop"
    /\ UNCHANGED <<config, pure, h_prepare, h_init, nsent, running, rf_initialized, now, flush_i,
                   start_time, search_buffer_pos, sample_file, result_found,
                   scan_ret, rx_stream, txVars, exit_code, histTx,
                   h_cancel_seen, h_ever_found, h_sink_written>>

\* the flush loop is over: start_time = steady_clock::now()
FlushDone ==
    /\ pc = "flush"
    /\ flush_i >= FlushCount
    /\ start_time' = now
    /\ pc' = "scan_loop"
    /\ UNCHANGED <<config, pure, h_prepare, h_init, nsent, running, rf_initialized, now, flush_i,
                   search_buffer_pos, sample_file, result_found, scan_ret,
                   rx_stream, txVars, exit_code, histTx, h_cancel_seen,
                   h_ever_found, h_sink_written>>

\* head of the scan loop: while (running), the timeout check, and the
\* start of rf.receive
ScanLoopHead ==
    /\ pc = "scan_loop"
    /\ IF ~ScanLoopContinues(running)
       THEN pc' = "scan_exit" /\ h_cancel_seen' = "scan"
       ELSE IF TimedOut(now - start_time, config.operation.scan_duration_sec)
       THEN pc' = "scan_exit" /\ h_cancel_seen' = h_cancel_seen
       ELSE pc' = "scan_recv" /\ h_cancel_seen' = h_cancel_seen
    /\ UNCHANGED <<config, pure, h_prepare, h_init, nsent, running, rf_initialized, now, scanVars, txVars,
                   exit_code, histTx, h_ever_found, h_sink_written>>

\* scan_for_ssb: if (config.operation.save_samples && sample_file.is_open())
\* (the file is only ever opened when save_samples is set)
SinkWrites(file) == file = "open"

\* rf.receive returns nrecv: back off on nrecv <= 0, otherwise write to
\* the sink, accumulate into the window, and go on to the search if the
\* window is full
ScanRecvReturn ==
    /\ pc = "scan_recv"
    /\ \E nrecv \in -1..samples_per_iter :
          IF ReceiveFailed(nrecv)
          THEN \* sleep 10 ms and continue
               /\ now' = Min(now + 1, ClockCap)
               /\ pc' = "scan_loop"
               /\ search_buffer_pos' = search_buffer_pos
               /\ h_sink_written' = h_sink_written
          ELSE LET pos == search_buffer_pos + SamplesToCopy(nrecv, search_buffer_pos)
               IN  /\ now' = now
                   /\ search_buffer_pos' = pos
                   /\ pc' = IF WindowFull(pos) THEN "scan_search" ELSE "scan_loop"
                   /\ h_sink_written' = (h_sink_written \/ SinkWrites(sample_file))
    /\ UNCHANGED <<config, pure, h_prepare, h_init, nsent, running, rf_initialized, start_time, flush_i,
                   sample_file, result_found, scan_ret, rx_stream,
                   txVars, exit_code, histTx, h_cancel_seen, h_ever_found>>

\* mutant: the window is not cleared after a search that found nothing
CursorAfterSearch_Kept(pos) == pos

\* scan_for_ssb: search_buffer_pos = 0 after a search that found nothing
CursorAfterSearch(pos) == 0

\* result = ssb_proc.scan(search_buffer.data(), search_buffer_size, ...)
\* returns: found stops RX and returns true, otherwise the window is reset
ScanSearch ==
    /\ pc = "scan_search"
    /\ \E found \in BOOLEAN :
          /\ result_found' = found
          /\ h_ever_found' = (h_ever_found \/ found)
          /\ IF found
             THEN /\ rx_stream' = "stopped"
                  /\ scan_ret' = TRUE
                  /\ sample_file' = CloseOnReturn(sample_file)
                  /\ search_buffer_pos' = search_buffer_pos
                  /\ pc' = "scan_returned"
             ELSE /\ search_buffer_pos' = CursorAfterSearch(search_buffer_pos)
                  /\ pc' = "scan_loop"
                  /\ UNCHANGED <<rx_stream, scan_ret, sample_file>>
    /\ UNCHANGED <<config, pure, h_prepare, h_init, nsent, running, rf_initialized, now, start_time,
                   flush_i, txVars, exit_code, histTx, h_cancel_seen,
                   h_sink_written>>

\* mutant: the scan loop's exit path does not stop the RX stream
ScanExit_NoStopRx ==
    /\ pc = "scan_exit"
    /\ rx_stream' = rx_stream
    /\ sample_file' = IF config.operation.save_samples /\ sample_file = "open"
                      THEN "closed" ELSE CloseOnReturn(sample_file)
    /\ scan_ret' = FALSE
    /\ pc' = "scan_returned"
    /\ UNCHANGED <<config, pure, h_prepare, h_init, nsent, running, rf_initialized, now, start_time, flush_i,
                   search_buffer_pos, result_found, txVars, exit_code,
                   histTx, h_cancel_seen, h_ever_found, h_sink_written>>

\* after the loop: rf.stop_rx(), close the sink, return false
ScanExit ==
    /\ pc = "scan_exit"
    /\ rx_stream' = "stopped"
    /\ sample_file' = IF config.operation.save_samples /\ sample_file = "open"
                      THEN "closed" ELSE CloseOnReturn(sample_file)
    /\ scan_ret' = FALSE
    /\ pc' = "scan_returned"
    /\ UNCHANGED <<config, pure, h_prepare, h_init, nsent, running, rf_initialized, now, start_time, flush_i,
                   search_buffer_pos, result_found, txVars, exit_code,
                   histTx, h_cancel_seen, h_ever_found, h_sink_written>>

\* mutant: main goes on to the transmit stage whatever the scan returned
MainAfterScan_IgnoresResult ==
    /\ pc = "scan_returned"
    /\ pc' = "tx_prepare"
    /\ exit_code' = exit_code
    /\ UNCHANGED <<config, pure, h_prepare, h_init, nsent, running, rf_initialized, now, scanVars, txVars,
                   histTx, h_cancel_seen, h_ever_found, h_sink_written>>

\* main: if (!scan_for_ssb(...)) return 1;
MainAfterScan ==
    /\ pc = "scan_returned"
    /\ IF scan_ret
       THEN pc' = "tx_prepare" /\ exit_code' = exit_code
       ELSE pc' = "exit" /\ exit_code' = ExitStatus(FALSE)
    /\ UNCHANGED <<config, pure, h_prepare, h_init, nsent, running, rf_initialized, now, scanVars, txVars,
                   histTx, h_cancel_seen, h_ever_found, h_sink_written>>

(***************************************************************************)
(* transmit_spoofed_ssb                                                    *)
(***************************************************************************)
\* SsbProcessor::encode_mib: true unless srsran_pbch_msg_nr_mib_pack fails
EncodeMib(pack_ok) == pack_ok

\* mutant: a rejected encoding does not end the preparation
PrepareFails_IgnoresEncode(encode_ok, base_samples) == base_samples = 0

\* transmit_spoofed_ssb: the two early returns before the burst is built
PrepareFails(encode_ok, base_samples) == ~encode_ok \/ base_samples = 0

\* values a transmit call may return: an error, nothing, a short count,
\* the whole burst
TxResults == {-1, 0, 1, nsamples}

\* modify and encode the MIB, generate and normalise the burst, start TX
TxPrepare ==
    /\ pc = "tx_prepare"
    /\ \E pack_ok \in BOOLEAN, base_samples \in {0, SubframeSize} :
          /\ h_prepare' = IF ~pack_ok THEN "encode_failed"
                          ELSE IF base_samples = 0 THEN "generate_failed"
                          ELSE "ok"
          /\ IF PrepareFails(EncodeMib(pack_ok), base_samples)
             THEN /\ tx_ret' = FALSE
                  /\ pc' = "tx_returned"
                  /\ UNCHANGED <<tx_stream, nsamples, tx_count, consecutive_errors>>
             ELSE /\ nsamples' = base_samples * config.attack.burst_length_ms
                  /\ IF ~rf_initialized
                     THEN \* rf.start_tx() failed
                          /\ tx_ret' = FALSE
                          /\ pc' = "tx_returned"
                          /\ UNCHANGED <<tx_stream, tx_count, consecutive_errors>>
                     ELSE /\ tx_stream' = "started"
                          /\ tx_ret' = tx_ret
                          /\ tx_count' = 0
                          /\ consecutive_errors' = 0
                          /\ pc' = IF config.attack.continuous_tx
                                   THEN "tx_loop" ELSE "tx_single"
    /\ UNCHANGED <<config, pure, h_init, nsent, running, rf_initialized, now, scanVars,
                   is_start, is_end, stats_bursts, exit_code, histTx,
                   h_cancel_seen, h_ever_found, h_sink_written>>

\* head of the continuous loop: the while condition, the burst flags and
\* the start of rf.transmit
TxLoopHead ==
    /\ pc = "tx_loop"
    /\ h_tx_calls < MaxTxCalls
    /\ IF LoopContinues(running, config.attack.max_bursts, tx_count)
       THEN /\ is_start' = IsStartOfBurst(tx_count)
            /\ is_end' = IsEndOfBurst(config.attack.burst_interval_us)
            /\ h_tx_calls' = h_tx_calls + 1
            /\ h_sob_calls' = h_sob_calls + (IF IsStartOfBurst(tx_count) THEN 1 ELSE 0)
            /\ h_cancel_seen' = h_cancel_seen
            /\ pc' = "tx_send"
       ELSE /\ h_cancel_seen' = IF running THEN h_cancel_seen ELSE "tx"
            /\ pc' = "tx_after_loop"
            /\ UNCHANGED <<is_start, is_end, h_tx_calls, h_sob_calls>>
    /\ UNCHANGED <<config, pure, h_prepare, h_init, nsent, running, rf_initialized, now, scanVars, tx_stream,
                   nsamples, tx_count, consecutive_errors, stats_bursts,
                   tx_ret, exit_code, h_tx_ok, h_streak, h_max_streak,
                   h_aborted, h_ever_found, h_sink_written>>

\* rf.transmit returns nsent; the rest of the loop body
TxSendReturn ==
    /\ pc = "tx_send"
    /\ \E n \in TxResults :
          IF TransmitFailed(n)
          THEN /\ consecutive_errors' = consecutive_errors + 1
               /\ tx_count' = tx_count
               /\ h_tx_ok' = h_tx_ok
               /\ h_streak' = h_streak + 1
               /\ h_max_streak' = IF h_streak + 1 > h_max_streak
                                  THEN h_streak + 1 ELSE h_max_streak
               /\ IF ErrorThresholdReached(consecutive_errors + 1)
                  THEN h_aborted' = TRUE /\ pc' = "tx_after_loop"
                  ELSE h_aborted' = h_aborted /\ pc' = "tx_loop"
          ELSE /\ consecutive_errors' = ErrorsAfterSuccess(consecutive_errors)
               /\ tx_count' = tx_count + 1
               /\ h_tx_ok' = h_tx_ok + 1
               /\ h_streak' = 0
               /\ h_max_streak' = h_max_streak
               /\ h_aborted' = h_aborted
               /\ pc' = "tx_loop"
    /\ UNCHANGED <<config, pure, h_prepare, h_init, nsent, running, rf_initialized, now, scanVars, tx_stream,
                   nsamples, is_start, is_end, stats_bursts, tx_ret,
                   exit_code, h_tx_calls, h_sob_calls, h_cancel_seen,
                   h_ever_found, h_sink_written>>

\* after the loop: final statistics, rf.stop_tx(), return
TxAfterLoop ==
    /\ pc = "tx_after_loop"
    /\ stats_bursts' = tx_count
    /\ tx_stream' = "stopped"
    /\ tx_ret' = ReturnAfterLoop
    /\ pc' = "tx_returned"
    /\ UNCHANGED <<config, pure, h_prepare, h_init, nsent, running, rf_initialized, now, scanVars, nsamples,
                   tx_count, consecutive_errors, is_start, is_end, exit_code,
                   histTx, h_cancel_seen, h_ever_found, h_sink_written>>

\* single-shot mode: rf.transmit(tx_buffer, nsamples, true, true) starts
TxSingle ==
    /\ pc = "tx_single"
    /\ is_start' = TRUE
    /\ is_end' = TRUE
    /\ h_tx_calls' = h_tx_calls + 1
    /\ h_sob_calls' = h_sob_calls + 1
    /\ pc' = "tx_single_send"
    /\ UNCHANGED <<config, pure, h_prepare, h_init, nsent, running, rf_initialized, now, scanVars, tx_stream,
                   nsamples, tx_count, consecutive_errors, stats_bursts,
                   tx_ret, exit_code, h_tx_ok, h_streak, h_max_streak,
                   h_aborted, h_cancel_seen, h_ever_found, h_sink_written>>

\* mutant: a call that sent no sample is taken as a failure
SingleShotFailed_OnZero(n) == n <= 0

\* transmit_spoofed_ssb, single-shot mode: if (nsent < 0) return false
SingleShotFailed(n) == n < 0

\* single-shot mode: the call returns; failure returns at once, success
\* reports nsent and goes on to rf.stop_tx()
TxSingleReturn ==
    /\ pc = "tx_single_send"
    /\ \E n \in TxResults :
          /\ nsent' = n
          /\ IF SingleShotFailed(n)
             THEN tx_ret' = FALSE /\ tx_stream' = tx_stream
             ELSE tx_ret' = TRUE /\ tx_stream' = "stopped"
    /\ pc' = "tx_returned"
    /\ UNCHANGED <<config, pure, h_prepare, h_init, running, rf_initialized, now, scanVars, nsamples,
                   tx_count, consecutive_errors, is_start, is_end,
                   stats_bursts, exit_code, histTx, h_cancel_seen,
                   h_ever_found, h_sink_written>>

\* main: if (!transmit_spoofed_ssb(...)) return 1; ... return 0;
MainAfterTransmit ==
    /\ pc = "tx_returned"
    /\ exit_code' = ExitStatus(tx_ret)
    /\ pc' = "exit"
    /\ UNCHANGED <<config, pure, h_prepare, h_init, nsent, running, rf_initialized, now, scanVars, txVars,
                   histTx, h_cancel_seen, h_ever_found, h_sink_written>>

(***************************************************************************)
(* SsbProcessor::modify_mib, a pure function of the decoded MIB and the    *)
(* attack configuration                                                    *)
(***************************************************************************)
\* values of the CORESET0 and SearchSpace0 indices that the model explores
IdxValues == {0, 15}

\* srsran_mib_nr_t: the decoded system-information record
Mibs ==
    [sfn                    : {0, 1},
     ssb_offset             : {0, 1},
     dmrs_typeA_pos         : {2, 3},
     hrf                    : {FALSE},
     cell_barred            : BOOLEAN,
     coreset0_idx           : IdxValues,
     ss0_idx                : IdxValues,
     intra_freq_reselection : BOOLEAN]

\* AttackConfig: the MIB modification flags and values
MutationConfigs ==
    [modify_coreset0_idx     : BOOLEAN,
     modify_ss0_idx          : BOOLEAN,
     modify_cell_barred      : BOOLEAN,
     modify_intra_freq_resel : BOOLEAN,
     coreset0_idx_value      : IdxValues,
     ss0_idx_value           : IdxValues,
     cell_barred_value       : BOOLEAN,
     intra_freq_resel_value  : BOOLEAN]

\* mutant: the rule flips the flag instead of setting it
ApplyCellBarred_Toggle(mib, attack) ==
    IF attack.modify_cell_barred
    THEN [mib EXCEPT !.cell_barred = ~mib.cell_barred]
    ELSE mib

\* mutant: the rule writes the configured cell_barred_value
ApplyCellBarred_UsesValue(mib, attack) ==
    IF attack.modify_cell_barred
    THEN [mib EXCEPT !.cell_barred = attack.cell_barred_value]
    ELSE mib

\* modify_mib: if (attack_config.modify_cell_barred) mib.cell_barred = true
ApplyCellBarred(mib, attack) ==
    IF attack.modify_cell_barred
    THEN [mib EXCEPT !.cell_barred = TRUE]
    ELSE mib

\* mutant: the rule is applied whether or not it is enabled
ApplyCoreset0_Unconditional(mib, attack) ==
    [mib EXCEPT !.coreset0_idx = attack.coreset0_idx_value]

\* modify_mib: if (attack_config.modify_coreset0_idx) mib.coreset0_idx = value
ApplyCoreset0(mib, attack) ==
    IF attack.modify_coreset0_idx
    THEN [mib EXCEPT !.coreset0_idx = attack.coreset0_idx_value]
    ELSE mib

\* mutant: the rule writes ssb_offset instead of ss0_idx
ApplySs0_WritesOffset(mib, attack) ==
    IF attack.modify_ss0_idx
    THEN [mib EXCEPT !.ssb_offset = attack.ss0_idx_value]
    ELSE mib

\* modify_mib: if (attack_config.modify_ss0_idx) mib.ss0_idx = value
ApplySs0(mib, attack) ==
    IF attack.modify_ss0_idx
    THEN [mib EXCEPT !.ss0_idx = attack.ss0_idx_value]
    ELSE mib

\* modify_mib: bool modified, set by each of the three rules it applies
Modified(attack) ==
    \/ attack.modify_cell_barred
    \/ attack.modify_coreset0_idx
    \/ attack.modify_ss0_idx

\* SsbProcessor::modify_mib: the MIB after the call and the value returned
ModifyMib(mib, attack) ==
    [mib      |-> ApplySs0(ApplyCoreset0(ApplyCellBarred(mib, attack), attack), attack),
     modified |-> Modified(attack)]

\* inputs of modify_mib
MibInputs ==
    {[op |-> "mib_in", mib |-> m, attack |-> a] :
        m \in Mibs, a \in MutationConfigs}

\* modify_mib is applied to the input
ModifyOnce ==
    /\ pure.op = "mib_in"
    /\ pure' = [op     |-> "mib_once",
                mib    |-> pure.mib,
                attack |-> pure.attack,
                out    |-> ModifyMib(pure.mib, pure.attack)]
    /\ UNCHANGED mainVars

\* modify_mib is applied again, to its own output, with the same config
ModifyTwice ==
    /\ pure.op = "mib_once"
    /\ pure' = [op     |-> "mib_twice",
                mib    |-> pure.mib,
                attack |-> pure.attack,
                out    |-> pure.out,
                out2   |-> ModifyMib(pure.out.mib, pure.attack)]
    /\ UNCHANGED mainVars

(***************************************************************************)
(* SsbProcessor::scan on one full search window, as called by scan_for_ssb *)
(***************************************************************************)
\* physical cell ids seen by the search, and configured as target
CellIds == {0, 42, 1007}

\* scan_for_ssb: std::optional target_pci, set only when scan_for_target;
\* the optional is a sequence of length 0 or 1
TargetFilter(attack) ==
    IF attack.scan_for_target THEN <<attack.target_pci>> ELSE <<>>

\* mutant: the cell id is compared with target_pci even with no filter set
FilterRejects_AlwaysCompares(filter, target_pci, N_id) ==
    N_id # target_pci

\* scan: target_pci.has_value() && search_res.N_id != target_pci.value()
FilterRejects(filter, target_pci, N_id) ==
    Len(filter) > 0 /\ N_id # filter[1]

\* SsbProcessor::scan: the result returned for one window.  search_ok is the
\* outcome of srsran_ssb_search, crc the PBCH CRC, unpack_ok the outcome of
\* the MIB unpack in decode_mib, whose return value scan does not read.
ScanResult(initialized, search_ok, crc, N_id, attack, unpack_ok) ==
    LET found == /\ initialized
                 /\ search_ok
                 /\ crc
                 /\ ~FilterRejects(TargetFilter(attack), attack.target_pci, N_id)
    IN  [found       |-> found,
         pci         |-> IF found THEN N_id ELSE 0,
         mib_decoded |-> found /\ unpack_ok]

\* inputs of one search
SearchInputs ==
    {[op |-> "search_in", initialized |-> i, search_ok |-> s, crc |-> c,
      N_id |-> n, attack |-> a, unpack_ok |-> u] :
        i \in BOOLEAN, s \in BOOLEAN, c \in BOOLEAN, n \in CellIds,
        a \in [scan_for_target : BOOLEAN, target_pci : CellIds],
        u \in BOOLEAN}

\* one full window is searched
SearchWindow ==
    /\ pure.op = "search_in"
    /\ pure' = [op          |-> "search_out",
                initialized |-> pure.initialized,
                search_ok   |-> pure.search_ok,
                crc         |-> pure.crc,
                N_id        |-> pure.N_id,
                attack      |-> pure.attack,
                unpack_ok   |-> pure.unpack_ok,
                out         |-> ScanResult(pure.initialized, pure.search_ok,
                                           pure.crc, pure.N_id, pure.attack,
                                           pure.unpack_ok)]
    /\ UNCHANGED mainVars

(***************************************************************************)
(* ConfigParser::validate and the value returned by load_from_file         *)
(***************************************************************************)
\* the fields of Config that validate reads, with values on both sides of
\* every limit
ValidateConfigs ==
    [srate_hz           : {-1, 0, SrateHz},
     rx_freq_hz         : {0, 1},
     tx_freq_hz         : {-1, 1},
     pattern            : {"A", "B", "C", "D", "E", "F", "a", ""},
     scs_khz            : {0, 15, 30, 60},
     target_pci         : {0, 1007, 1008},
     coreset0_idx_value : {0, 15, 16},
     ss0_idx_value      : {15, 16}]

\* mutant: the largest cell id is rejected
PciValid_Exclusive(pci) == pci < 1007

\* validate: config.attack.target_pci > 1007 is invalid
PciValid(pci) == ~(pci > 1007)

\* validate: config.ssb.pattern is one of A, B, C, D, E
PatternValid(pattern) ==
    ~(pattern # "A" /\ pattern # "B" /\ pattern # "C" /\ pattern # "D"
      /\ pattern # "E")

\* ConfigParser::validate: valid starts true and every failed test clears it
Validate(c) ==
    /\ ~(c.srate_hz <= 0)
    /\ ~(c.rx_freq_hz <= 0 \/ c.tx_freq_hz <= 0)
    /\ PatternValid(c.pattern)
    /\ ~(c.scs_khz # 15 /\ c.scs_khz # 30)
    /\ PciValid(c.target_pci)
    /\ ~(c.coreset0_idx_value > 15)
    /\ ~(c.ss0_idx_value > 15)

\* ConfigParser::load_from_file: false for an empty or unreadable file,
\* otherwise the fields are read and validate(config) is returned
LoadFromFile(map_empty, c) == IF map_empty THEN FALSE ELSE Validate(c)

\* inputs of one load
ValidateInputs ==
    {[op |-> "validate_in", map_empty |-> e, cfg |-> c] :
        e \in BOOLEAN, c \in ValidateConfigs}

\* the configuration is loaded and validated
ValidateConfig ==
    /\ pure.op = "validate_in"
    /\ pure' = [op        |-> "validate_out",
                map_empty |-> pure.map_empty,
                cfg       |-> pure.cfg,
                valid     |-> Validate(pure.cfg),
                loaded    |-> LoadFromFile(pure.map_empty, pure.cfg)]
    /\ UNCHANGED mainVars

(***************************************************************************)
(* transmit_spoofed_ssb: the burst buffer built from the base waveform     *)
(***************************************************************************)
\* 32-bit unsigned values are kept as hi * 2^16 + lo, both below 2^16
Two16 == 2^16

U32(h, l) == [hi |-> h, lo |-> l]

\* uint32_t product n * u of a small n and a 32-bit u: the value kept in 32
\* bits, and whether the exact product needed more than 32 bits
Mul32(n, u) ==
    LET lo_full == n * u.lo
        hi_full == n * u.hi + (lo_full \div Two16)
    IN  [val      |-> U32(hi_full % Two16, lo_full % Two16),
         overflow |-> hi_full \div Two16 > 0]

\* configured burst_length_ms: small values, 2^31, 2^31 + 1 and
\* 1431655766 = (2^32 + 2) / 3
BurstLengths ==
    {U32(0, n) : n \in 0..3} \cup {U32(32768, 0), U32(32768, 1), U32(21845, 21846)}

\* the base waveform of n samples; a sample is named by its position
BaseWaveform(n) == [i \in 1..n |-> i]

\* the largest burst buffer the model writes down
MaxBurstSamples == 3 * (SubframeSize + 1)

\* the buffers of a given length over the base samples and 0, a value that
\* is none of them
RECURSIVE Buffers(_, _)
Buffers(len, n) ==
    IF len = 0 THEN {<<>>}
    ELSE {Append(b, x) : b \in Buffers(len - 1, n), x \in 0..n}

\* lines 254-264: total_samples = base_samples * burst_length in 32 bits,
\* tx_buffer(total_samples), then burst_length copies of the base waveform
\* at i * base_samples.  When the product does not fit in 32 bits the
\* buffer is shorter than what the copies write: the writes past its end
\* have undefined behaviour, here a crash or any contents.
BurstOutcomes(base, burst_length) ==
    LET n     == Len(base)
        total == Mul32(n, burst_length)
        len   == total.val.lo
    IN  IF total.overflow
        THEN {[crashed |-> TRUE, nsamples |-> len, buf |-> <<>>]} \cup
             {[crashed |-> FALSE, nsamples |-> len, buf |-> b] :
                 b \in Buffers(len, n)}
        ELSE {[crashed  |-> FALSE,
               nsamples |-> len,
               buf      |-> [i \in 1..len |-> base[((i - 1) % n) + 1]]]}

\* inputs of the burst construction: those whose buffer can be written down
BurstInputs ==
    {[op |-> "burst_in", base |-> BaseWaveform(p[1]), burst_length |-> p[2]] :
        p \in {q \in (1..(SubframeSize + 1)) \X BurstLengths :
                  /\ Mul32(q[1], q[2]).val.hi = 0
                  /\ Mul32(q[1], q[2]).val.lo <= MaxBurstSamples}}

\* the burst buffer is built
BuildBurst ==
    /\ pure.op = "burst_in"
    /\ \E o \in BurstOutcomes(pure.base, pure.burst_length) :
          pure' = [op           |-> "burst_out",
                   base         |-> pure.base,
                   burst_length |-> pure.burst_length,
                   out          |-> o]
    /\ UNCHANGED mainVars

(***************************************************************************)
(* transmit_spoofed_ssb: normalization of the burst buffer.  Amplitudes    *)
(* are written in units of the guard term 1e-12 and a sample is given by   *)
(* its magnitude; results are exact fractions num / den.                   *)
(***************************************************************************)
\* the guard term 1e-12f, one unit
epsilon == 1

\* float target_amplitude = 0.7f
target_amplitude == [num |-> 7, den |-> 10]

\* sample magnitudes, from those of the order of the guard term upwards
SampleMags == {0, 1, 2, 7, 17}

\* check_power: the sum of std::norm over the buffer
RECURSIVE CheckPower(_)
CheckPower(buf) ==
    IF buf = <<>> THEN 0
    ELSE Head(buf) * Head(buf) + CheckPower(Tail(buf))

\* the mean power has an exact square root
ExactRms(buf) ==
    \E r \in 0..CheckPower(buf) : r * r * Len(buf) = CheckPower(buf)

\* std::sqrt(check_power / nsamples) where it is exact
CurrentAmplitude(buf) ==
    CHOOSE r \in 0..CheckPower(buf) : r * r * Len(buf) = CheckPower(buf)

\* mutant: the guard term is left out of the denominator
ScaleFactor_NoEpsilon(current_amplitude) ==
    [num |-> target_amplitude.num,
     den |-> target_amplitude.den * current_amplitude]

\* scale_factor = target_amplitude / (current_amplitude + 1e-12f)
ScaleFactor(current_amplitude) ==
    [num |-> target_amplitude.num,
     den |-> target_amplitude.den * (current_amplitude + epsilon)]

\* lines 267-280: the buffer after tx_buffer[i] *= scale_factor.  With no
\* sample the amplitude is 0/0 and the factor is NaN, but it multiplies
\* nothing.
Normalize(buf) ==
    IF Len(buf) = 0
    THEN [scale_is_nan |-> TRUE, buf |-> <<>>]
    ELSE LET scale == ScaleFactor(CurrentAmplitude(buf))
         IN  [scale_is_nan |-> FALSE,
              buf |-> [i \in 1..Len(buf) |->
                          [num |-> buf[i] * scale.num, den |-> scale.den]]]

\* a fraction with a zero denominator is NaN (0/0) or Inf
IsFinite(x) == x.den # 0

\* burst buffers of up to SubframeSize + 1 samples
NormInputs ==
    {[op |-> "norm_in", buf |-> b] :
        b \in {w \in UNION {[1..n -> SampleMags] : n \in 0..(SubframeSize + 1)} :
                  Len(w) = 0 \/ ExactRms(w)}}

\* the burst buffer is normalized
NormalizeBurst ==
    /\ pure.op = "norm_in"
    /\ pure' = [op  |-> "norm_out",
                buf |-> pure.buf,
                rms |-> IF Len(pure.buf) = 0 THEN 0
                        ELSE CurrentAmplitude(pure.buf),
                out |-> Normalize(pure.buf)]
    /\ UNCHANGED mainVars

(***************************************************************************)
(* scan_for_ssb: one receive of the scan loop and what it does to the      *)
(* window and to the sink.  A sample is named by a number: the sample in   *)
(* cell i of the window before the receive is i, and sample j of the       *)
(* received chunk is search_buffer_size + j.                               *)
(***************************************************************************)
WindowBefore == [i \in 1..search_buffer_size |-> i]

RxBuffer == [j \in 1..samples_per_iter |-> search_buffer_size + j]

\* mutant: the whole receive buffer is written, not the received count
SinkSamples_WholeBuffer(nrecv) == RxBuffer

\* sample_file.write(rx_buffer.data(), nrecv * sizeof(std::complex<float>))
SinkSamples(nrecv) == SubSeq(RxBuffer, 1, nrecv)

\* lines 128-162: the loop body from the return of rf.receive to the test
\* of the full window; sink is what is handed to sample_file.write, stored
\* is what the file gains (nothing when the write fails: the stream only
\* sets its error state, which the code never reads)
ReceiveChunk(window, pos, nrecv, sink_on, write_ok) ==
    IF ReceiveFailed(nrecv)
    THEN [window   |-> window,
          pos      |-> pos,
          sink     |-> <<>>,
          stored   |-> <<>>,
          backoff  |-> TRUE,
          searched |-> FALSE]
    ELSE LET samples_to_copy == SamplesToCopy(nrecv, pos)
         IN  [window   |-> [i \in 1..search_buffer_size |->
                               IF i > pos /\ i <= pos + samples_to_copy
                               THEN RxBuffer[i - pos] ELSE window[i]],
              pos      |-> pos + samples_to_copy,
              sink     |-> IF sink_on THEN SinkSamples(nrecv) ELSE <<>>,
              stored   |-> IF sink_on /\ write_ok
                           THEN SinkSamples(nrecv) ELSE <<>>,
              backoff  |-> FALSE,
              searched |-> WindowFull(pos + samples_to_copy)]

\* inputs of one receive: the cursor at the loop head, the result of
\* rf.receive, whether the sink is enabled and open (save_samples is set and
\* the file could be opened), and whether a write to it succeeds
ReceiveInputs ==
    {[op |-> "recv_in", pos |-> p, nrecv |-> k, sink_on |-> f,
      write_ok |-> w] :
        p \in 0..(search_buffer_size - 1), k \in -1..samples_per_iter,
        f \in BOOLEAN, w \in BOOLEAN}

\* one receive call returns and the loop body runs
ReceiveOnce ==
    /\ pure.op = "recv_in"
    /\ pure' = [op      |-> "recv_out",
                pos     |-> pure.pos,
                nrecv   |-> pure.nrecv,
                sink_on |-> pure.sink_on,
                write_ok |-> pure.write_ok,
                out     |-> ReceiveChunk(WindowBefore, pure.pos, pure.nrecv,
                                         pure.sink_on, pure.write_ok)]
    /\ UNCHANGED mainVars

(***************************************************************************)
(* transmit_spoofed_ssb: the periodic statistics of the continuous loop    *)
(***************************************************************************)
\* if (tx_count % 50 == 0)
StatsPeriod == 50

\* number of dashboard updates made when the burst counter reached count
FramesShown(count) == (count - 1) \div StatsPeriod

\* burst limits under which the dashboard is studied
StatsMaxBursts ==
    {U64(0, 0), U64(0, 2 * StatsPeriod), U64(2, 2 * StatsPeriod)}

\* elapsed times (ms) since the loop's start_time
ElapsedValues == {0, 75, 1000}

\* the loop's locals at the end of an iteration whose transmit call
\* returned >= 0: consecutive_errors was just reset and tx_count incremented
LoopLocals ==
    [tx_count : {1, StatsPeriod - 1, StatsPeriod, 2 * StatsPeriod},
     consecutive_errors : {0}]

\* the decisions of the loop, from what the code reads for each:
\* the while condition (330), is_start (333), is_end (334), the break (340)
Decisions(run, attack, locals) ==
    [continues |-> LoopContinues(run, attack.max_bursts, locals.tx_count),
     is_start  |-> IsStartOfBurst(locals.tx_count),
     is_end    |-> IsEndOfBurst(attack.burst_interval_us),
     abort     |-> ErrorThresholdReached(locals.consecutive_errors)]

\* int percent = (tx_count * 100) / config.attack.max_bursts
Percent(count, max_bursts) ==
    IF max_bursts.hi > 0 THEN 0 ELSE (count * 100) \div max_bursts.lo

\* what one dashboard update prints (rates truncated to whole numbers)
Dashboard(count, samples, max_bursts, total_elapsed) ==
    [bursts     |-> count,
     elapsed_ms |-> total_elapsed,
     rate       |-> IF total_elapsed > 0
                    THEN (count * 1000) \div total_elapsed ELSE 0,
     current_throughput |->
                    IF total_elapsed > 0
                    THEN (count * samples * 1000) \div total_elapsed ELSE 0,
     percent    |-> IF U64IsZero(max_bursts) THEN -1
                    ELSE Percent(count, max_bursts)]

\* mutant: the update restarts the burst counter it has just reported
PeriodicStats_RestartsCount(locals, frame, samples, max_bursts, total_elapsed) ==
    IF locals.tx_count % StatsPeriod = 0
    THEN [locals |-> [locals EXCEPT !.tx_count = 0],
          frame  |-> frame + 1,
          shown  |-> <<Dashboard(locals.tx_count, samples, max_bursts,
                                 total_elapsed)>>]
    ELSE [locals |-> locals, frame |-> frame, shown |-> <<>>]

\* lines 356-389: every 50 bursts the dashboard is printed and frame++
PeriodicStats(locals, frame, samples, max_bursts, total_elapsed) ==
    IF locals.tx_count % StatsPeriod = 0
    THEN [locals |-> locals,
          frame  |-> frame + 1,
          shown  |-> <<Dashboard(locals.tx_count, samples, max_bursts,
                                 total_elapsed)>>]
    ELSE [locals |-> locals, frame |-> frame, shown |-> <<>>]

\* inputs of one statistics update: the loop's locals, the cancellation
\* flag, the burst limit, the gap and the elapsed time
StatsInputs ==
    {x \in {[op |-> "stats_in", locals |-> l, running |-> r,
             attack |-> [max_bursts |-> m, burst_interval_us |-> g],
             total_elapsed |-> e] :
                l \in LoopLocals, r \in BOOLEAN, g \in {0, 500},
                e \in ElapsedValues, m \in StatsMaxBursts} :
        \/ U64IsZero(x.attack.max_bursts)
        \/ x.locals.tx_count <= ToInt32(x.attack.max_bursts)}

\* the end of one successful iteration of the continuous loop
UpdateStats ==
    /\ pure.op = "stats_in"
    /\ pure' = [op      |-> "stats_out",
                locals  |-> pure.locals,
                running |-> pure.running,
                attack  |-> pure.attack,
                total_elapsed |-> pure.total_elapsed,
                out     |-> PeriodicStats(pure.locals,
                                          FramesShown(pure.locals.tx_count),
                                          SubframeSize,
                                          pure.attack.max_bursts,
                                          pure.total_elapsed)]
    /\ UNCHANGED mainVars

(***************************************************************************)
(* transmit_spoofed_ssb: what the continuous loop does with the result of  *)
(* one transmit call                                                       *)
(***************************************************************************)
\* lines 338-349: the loop's counters after rf.transmit returned n
AfterTransmit(locals, n) ==
    IF TransmitFailed(n)
    THEN [tx_count           |-> locals.tx_count,
          consecutive_errors |-> locals.consecutive_errors + 1,
          abort |-> ErrorThresholdReached(locals.consecutive_errors + 1)]
    ELSE [tx_count           |-> locals.tx_count + 1,
          consecutive_errors |-> ErrorsAfterSuccess(locals.consecutive_errors),
          abort              |-> FALSE]

\* inputs of one transmit result: the counters before the call, the size of
\* the burst buffer, and the value rf.transmit returns (an error, nothing, a
\* part of the buffer, the whole buffer)
SendInputs ==
    {[op |-> "send_in", locals |-> l, requested |-> SubframeSize, n |-> k] :
        l \in [tx_count : 0..MaxBurstsSmall,
               consecutive_errors : 0..(max_consecutive_errors - 1)],
        k \in {-1, 0, 1, SubframeSize}}

\* one transmit call of the continuous loop returns
CountSend ==
    /\ pure.op = "send_in"
    /\ pure' = [op        |-> "send_out",
                locals    |-> pure.locals,
                requested |-> pure.requested,
                n         |-> pure.n,
                out       |-> AfterTransmit(pure.locals, pure.n)]
    /\ UNCHANGED mainVars

(***************************************************************************)
(* Specification of the pure functions: the input is chosen initially and  *)
(* the function under study is applied to it                               *)
(***************************************************************************)
PureInit ==
    /\ config = CHOOSE c \in Configs : TRUE
    /\ InitMain
    /\ pure \in MibInputs \cup SearchInputs \cup ValidateInputs \cup BurstInputs
                \cup NormInputs \cup ReceiveInputs \cup StatsInputs
                \cup SendInputs

PureNext ==
    \/ ModifyOnce \/ ModifyTwice \/ SearchWindow \/ ValidateConfig
    \/ BuildBurst \/ NormalizeBurst \/ ReceiveOnce \/ UpdateStats
    \/ CountSend

PureSpec == PureInit /\ [][PureNext]_vars

(***************************************************************************)
(* Specifications                                                          *)
(***************************************************************************)
\* the steps of the program itself
Step ==
    \/ LoadConfig
    \/ RfInit
    \/ SsbInit
    \/ ScanStart
    \/ FlushRecv
    \/ FlushDone
    \/ ScanLoopHead
    \/ ScanRecvReturn
    \/ ScanSearch
    \/ ScanExit
    \/ MainAfterScan
    \/ TxPrepare
    \/ TxLoopHead
    \/ TxSendReturn
    \/ TxAfterLoop
    \/ TxSingle
    \/ TxSingleReturn
    \/ MainAfterTransmit

Next ==
    \/ Step
    \/ Cancel
    \/ Tick

Spec == Init /\ [][Next]_vars

\* the program keeps running (every blocking call returns) and the clock
\* keeps advancing
LiveSpec == Init /\ [][Next]_vars /\ WF_vars(Step) /\ WF_vars(Tick)

\* the program up to the return of scan_for_ssb, under the same fairness:
\* what happens after the return has no bearing on whether the scan returns
ScanStep ==
    \/ LoadConfig
    \/ RfInit
    \/ SsbInit
    \/ ScanStart
    \/ FlushRecv
    \/ FlushDone
    \/ ScanLoopHead
    \/ ScanRecvReturn
    \/ ScanSearch
    \/ ScanExit

ScanNext ==
    \/ ScanStep
    \/ Cancel
    \/ Tick

ScanLiveSpec ==
    Init /\ [][ScanNext]_vars /\ WF_vars(ScanStep) /\ WF_vars(Tick)

\* main at the call of transmit_spoofed_ssb: the configuration is loaded,
\* the device is open, the scan's search filled a window and reported found,
\* scan_for_ssb stopped RX, closed the sink and returned true; cancellation
\* may already have been signalled
TxInit ==
    /\ config \in Configs
    /\ pure = NoPure
    /\ pc = "tx_prepare"
    /\ running \in BOOLEAN
    /\ rf_initialized = TRUE
    /\ now = 0
    /\ start_time = 0
    /\ flush_i = FlushCount
    /\ search_buffer_pos = search_buffer_size
    /\ sample_file \in (IF config.operation.save_samples
                        THEN {"closed", "unopened"} ELSE {"unopened"})
    /\ h_sink_written = (sample_file = "closed")
    /\ result_found = TRUE
    /\ scan_ret = TRUE
    /\ rx_stream = "stopped"
    /\ tx_stream = "idle"
    /\ nsamples = 0
    /\ tx_count = 0
    /\ consecutive_errors = 0
    /\ is_start = FALSE
    /\ is_end = FALSE
    /\ stats_bursts = -1
    /\ tx_ret = FALSE
    /\ exit_code = -1
    /\ h_tx_calls = 0
    /\ h_tx_ok = 0
    /\ h_streak = 0
    /\ h_max_streak = 0
    /\ h_sob_calls = 0
    /\ h_aborted = FALSE
    /\ h_cancel_seen = "none"
    /\ h_ever_found = TRUE
    /\ h_prepare = "none"
    /\ h_init = "none"
    /\ nsent = 0

\* the program from the call of transmit_spoofed_ssb on: every transmit call
\* returns and the program keeps running; cancellation may come at any time
TxStep ==
    \/ TxPrepare
    \/ TxLoopHead
    \/ TxSendReturn
    \/ TxAfterLoop
    \/ TxSingle
    \/ TxSingleReturn
    \/ MainAfterTransmit

TxNext ==
    \/ TxStep
    \/ Cancel

TxLiveSpec == TxInit /\ [][TxNext]_vars /\ WF_vars(TxStep)

(***************************************************************************)
(* ssb_file_analyzer: the window loop of the offline analyzer's main       *)
(***************************************************************************)
\* largest number of samples loaded from the file
MaxSamples == 6

\* largest --window value (ms)
MaxWindowMs == 3

\* sample rates given with -s (Hz); parse_args accepts any rate > 0
AnalyzerRates == {1000, 2000}

\* window_count is shown up to this value; the loop itself has no such limit
MaxWindowCount == MaxSamples + 2

\* static_cast<uint32_t>(args.sample_rate_hz * args.window_size_ms / 1000.0)
WindowSamples(sample_rate_hz, window_size_ms) ==
    (sample_rate_hz * window_size_ms) \div 1000

\* the for loop's condition: offset + window_samples <= samples.size()
WindowFits(offset, window_samples, size) == offset + window_samples <= size

\* the for loop's increment: offset += window_samples / 2
NextOffset(offset, window_samples) == offset + window_samples \div 2

\* the analyzer at the head of its window loop: parse_args accepted the
\* arguments (it does not check --window), the samples are loaded, offset
\* and the counters are 0
AnalyzerInit ==
    /\ config = CHOOSE c \in Configs : TRUE
    /\ InitMain
    /\ pure \in {[op             |-> "analyzer_loop",
                  size           |-> n,
                  window_samples |-> WindowSamples(r, w),
                  offset         |-> 0,
                  window_count   |-> 0,
                  ssb_count      |-> 0] :
                    n \in 0..MaxSamples, r \in AnalyzerRates,
                    w \in 0..MaxWindowMs}

\* one iteration of the window loop: the window is searched, the counters
\* are updated, and the offset is advanced
AnalyzerWindow ==
    /\ pure.op = "analyzer_loop"
    /\ WindowFits(pure.offset, pure.window_samples, pure.size)
    /\ \E found \in BOOLEAN :
          pure' = [pure EXCEPT
                     !.window_count = Min(pure.window_count + 1, MaxWindowCount),
                     !.ssb_count = IF found
                                   THEN Min(pure.ssb_count + 1, MaxWindowCount)
                                   ELSE pure.ssb_count,
                     !.offset = NextOffset(pure.offset, pure.window_samples)]
    /\ UNCHANGED mainVars

\* the loop's condition is false: the summary is printed
AnalyzerSummary ==
    /\ pure.op = "analyzer_loop"
    /\ ~WindowFits(pure.offset, pure.window_samples, pure.size)
    /\ pure' = [pure EXCEPT !.op = "analyzer_done"]
    /\ UNCHANGED mainVars

AnalyzerNext ==
    \/ AnalyzerWindow
    \/ AnalyzerSummary

\* the analyzer keeps running: every search returns
AnalyzerSpec ==
    AnalyzerInit /\ [][AnalyzerNext]_vars /\ WF_vars(AnalyzerNext)

(***************************************************************************)
(* RfHandler: the lifetime of one handler, from constructor to destructor  *)
(***************************************************************************)
\* largest number of init calls made on one handler
MaxInitCalls == 5

\* RfHandler::RfHandler(): initialized_(false), the device struct zeroed;
\* h_opens and h_closes count the successful srsran_rf_open calls and the
\* srsran_rf_close calls, h_failure is the first step of the latest init
\* that did not succeed, ret is what the latest init returned
HandlerInit ==
    /\ config = CHOOSE c \in Configs : TRUE
    /\ InitMain
    /\ pure = [op          |-> "handler_alive",
               initialized |-> FALSE,
               rf_device   |-> "closed",
               init_calls  |-> 0,
               ret         |-> FALSE,
               h_failure   |-> "none",
               h_opens     |-> 0,
               h_closes    |-> 0]

\* RfHandler::init on a handler that is not initialized: the device is
\* opened; a failed gain setter closes it again; otherwise initialized_ is
\* set, whatever the sample-rate and frequency setters returned
InitFresh(h, open_ok, rx_gain_ok, tune_ok, tx_gain_ok) ==
    LET ok == RfInitOk(open_ok, rx_gain_ok, tune_ok, tx_gain_ok)
    IN  [h EXCEPT
           !.init_calls  = h.init_calls + 1,
           !.ret         = ok,
           !.h_failure   = RfInitFailure(open_ok, rx_gain_ok, tune_ok, tx_gain_ok),
           !.initialized = ok,
           !.rf_device   = IF ok THEN "open" ELSE "closed",
           !.h_opens     = h.h_opens + (IF open_ok THEN 1 ELSE 0),
           !.h_closes    = h.h_closes + (IF open_ok /\ ~ok THEN 1 ELSE 0)]

\* RfHandler::init on an initialized handler: return false, nothing else
InitAgain(h) ==
    [h EXCEPT !.init_calls = h.init_calls + 1,
              !.ret        = FALSE,
              !.h_failure  = "already"]

\* one call of RfHandler::init
HandlerInitCall ==
    /\ pure.op = "handler_alive"
    /\ pure.init_calls < MaxInitCalls
    /\ \E open_ok \in BOOLEAN, rx_gain_ok \in BOOLEAN,
          tune_ok \in BOOLEAN, tx_gain_ok \in BOOLEAN :
          pure' = IF pure.initialized
                  THEN InitAgain(pure)
                  ELSE InitFresh(pure, open_ok, rx_gain_ok, tune_ok, tx_gain_ok)
    /\ UNCHANGED mainVars

\* RfHandler::~RfHandler(): if (initialized_) srsran_rf_close(&rf_device_)
DestructorCloses(h) == h.initialized

\* the handler is destroyed
HandlerDestroy ==
    /\ pure.op = "handler_alive"
    /\ pure' = [pure EXCEPT
                  !.op        = "handler_destroyed",
                  !.rf_device = IF DestructorCloses(pure)
                                THEN "closed" ELSE pure.rf_device,
                  !.h_closes  = pure.h_closes +
                                   (IF DestructorCloses(pure) THEN 1 ELSE 0)]
    /\ UNCHANGED mainVars

HandlerNext ==
    \/ HandlerInitCall
    \/ HandlerDestroy

HandlerSpec == HandlerInit /\ [][HandlerNext]_vars

TypeOK ==
    /\ config \in Configs
    /\ running \in BOOLEAN
    /\ search_buffer_pos \in 0..search_buffer_size
    /\ tx_count \in 0..MaxTxCalls
    /\ consecutive_errors \in 0..max_consecutive_errors
    /\ exit_code \in {-1, 0, 1}

(***************************************************************************)
(* Properties                                                              *)
(***************************************************************************)
Continuous == config.attack.continuous_tx
Unlimited  == U64IsZero(config.attack.max_bursts)

\* C1: when the continuous loop was left by the error-threshold break (10
\* consecutive transmit errors), the run is fatal: transmit_spoofed_ssb
\* returned false and main returns 1.
C1_ErrorAbortIsFatal ==
    (pc = "exit" /\ h_aborted) => (tx_ret = FALSE /\ exit_code = 1)

\* C2: continuous mode, max_bursts = N > 0, no cancellation, no 10 errors in
\* a row: while a transmit call is in progress fewer than N calls have
\* succeeded, and when the loop is over exactly N calls have succeeded and
\* the final statistics report N bursts.
C2_ExactlyNBursts ==
    (Continuous /\ ~Unlimited /\ running /\ ~h_aborted) =>
        /\ pc = "tx_send" => ~U64EqualsNat(config.attack.max_bursts, h_tx_ok)
        /\ pc = "tx_after_loop" => U64EqualsNat(config.attack.max_bursts, h_tx_ok)
        /\ pc = "tx_returned" /\ stats_bursts # -1 =>
              U64EqualsNat(config.attack.max_bursts, stats_bursts)

\* C3: continuous mode, no cancellation, every transmit call fails: no 11th
\* call is made, and the loop is left after exactly 10 calls with no burst
\* counted.
C3_AbortAfterExactlyTen ==
    (Continuous /\ running /\ h_tx_ok = 0) =>
        /\ pc = "tx_send" => h_tx_calls <= 10
        /\ pc = "tx_after_loop" => h_tx_calls = 10 /\ tx_count = 0

\* C4: the consecutive-error counter is the length of the current run of
\* failed transmit calls (every call returning >= 0 resets it), so a run
\* whose streaks of failures are all at most 9 long never takes the
\* error-threshold break.
C4_ErrorCounterIsStreak ==
    /\ consecutive_errors = h_streak
    /\ h_max_streak <= 9 => ~h_aborted

\* a success reset the counter after a streak of 9 failures, without abort
C4_Witness ==
    /\ pc = "tx_loop"
    /\ h_max_streak = 9
    /\ h_tx_ok >= 1
    /\ consecutive_errors = 0
    /\ ~h_aborted

\* C5 (as stated): start-of-burst is asserted on at most one transmit call
\* of a continuous campaign, the first one; every later call has it false.
C5_StartOfBurstOnce ==
    /\ h_sob_calls <= 1
    /\ (pc = "tx_send" /\ h_tx_calls > 1) => ~is_start

\* C5 (amended): a transmit call of the continuous campaign has
\* start-of-burst asserted exactly when no earlier call has succeeded: the
\* first call and every retry before the first success, and no call after it.
C5_StartOfBurstUntilFirstSuccess ==
    pc = "tx_send" => (is_start <=> h_tx_ok = 0)

\* two calls carried start-of-burst (the first one failed), and a call made
\* after the first success does not carry it
C5_Witness ==
    /\ pc = "tx_send"
    /\ h_sob_calls = 2
    /\ h_tx_ok >= 1
    /\ ~is_start

\* C6: whenever main has returned, every started RX stream and every started
\* TX stream has been stopped and an opened sample sink is closed.
C6_CleanupOnEveryExit ==
    pc = "exit" =>
        /\ rx_stream # "started"
        /\ tx_stream # "started"
        /\ sample_file # "open"

\* C7 (as stated): cancellation observed in Transmitting ends like
\* cancellation observed in Scanning.  The scan loop's cancellation always
\* ends with exit status 1 (see C7_CancelOutcomes), so every cancelled run
\* would have to end with status 1 and all streams stopped.
C7_SameCancelledOutcome ==
    (pc = "exit" /\ h_cancel_seen # "none") =>
        /\ exit_code = ExitStatus(FALSE)
        /\ rx_stream # "started"
        /\ tx_stream # "started"

\* C7 (amended): cancellation observed by the scan loop ends the run with
\* exit status 1 after stop_rx, with the sink closed and TX never started;
\* cancellation observed by the continuous transmit loop ends the run with
\* exit status 0 after stop_tx.  Both leave no stream started and no sink
\* open, but the exit status differs.
C7_CancelOutcomes ==
    pc = "exit" =>
        /\ h_cancel_seen = "scan" =>
              /\ exit_code = 1
              /\ rx_stream = "stopped"
              /\ tx_stream = "idle"
              /\ sample_file # "open"
        /\ h_cancel_seen = "tx" =>
              /\ exit_code = 0
              /\ rx_stream = "stopped"
              /\ tx_stream = "stopped"
              /\ sample_file # "open"

\* a run cancelled in the transmit loop has exited with status 0
C7_Witness ==
    /\ pc = "exit"
    /\ h_cancel_seen = "tx"
    /\ exit_code = 0
    /\ h_tx_ok >= 1

\* a step that starts a receive call of the flush loop or of the scan loop
RecvStarts ==
    \/ pc = "flush" /\ flush_i' # flush_i
    \/ pc = "scan_loop" /\ pc' = "scan_recv"

\* a step that starts a transmit call, continuous or single-shot
TransmitStarts ==
    \/ pc = "tx_loop" /\ pc' = "tx_send"
    \/ pc = "tx_single" /\ pc' = "tx_single_send"

\* C8 (as stated): no receive call of scan_for_ssb and no transmit call of
\* transmit_spoofed_ssb is started once the cancellation flag is set.
C8_NoCallAfterCancel ==
    [][(RecvStarts \/ TransmitStarts) => running]_vars

\* C8 (amended): the flag is checked at the head of every iteration of the
\* scan loop and of the continuous transmit loop: once it is set, no receive
\* call of the scan loop and no transmit call of the continuous loop is
\* started, and the loop is left for its cleanup (stop_rx and sink close,
\* final statistics and stop_tx).  The flush receives and the single-shot
\* transmit are made without looking at the flag.
C8_NoLoopCallAfterCancel ==
    /\ [][(pc = "scan_loop" /\ pc' = "scan_recv") => running]_vars
    /\ [][(pc = "tx_loop" /\ pc' = "tx_send") => running]_vars
    /\ [][(pc = "scan_loop" /\ ~running /\ pc' # pc) => pc' = "scan_exit"]_vars
    /\ [][(pc = "tx_loop" /\ ~running /\ pc' # pc) => pc' = "tx_after_loop"]_vars
    /\ [](pc = "scan_returned" => rx_stream # "started")
    /\ [](pc = "tx_returned" /\ Continuous => tx_stream # "started")

\* the scan loop saw the flag set with a partly filled window and left
C8_Witness ==
    /\ pc = "scan_exit"
    /\ h_cancel_seen = "scan"
    /\ search_buffer_pos > 0

\* C9: continuous mode, max_bursts = 0, no transmit call fails: the loop is
\* left only with the cancellation flag set, and the first loop-condition
\* check made with the flag set leaves it.
C9_UnlimitedUntilCancelled ==
    /\ []((pc = "tx_after_loop" /\ Unlimited /\ h_tx_ok = h_tx_calls)
              => (~running /\ h_cancel_seen = "tx"))
    /\ [][(pc = "tx_loop" /\ Unlimited /\ ~running /\ pc' # pc)
              => pc' = "tx_after_loop"]_vars
    /\ [][(pc = "tx_loop" /\ Unlimited /\ running /\ pc' # pc)
              => pc' = "tx_send"]_vars

\* an unlimited campaign without failures was left on cancellation
C9_Witness ==
    /\ pc = "tx_after_loop"
    /\ Unlimited
    /\ h_tx_calls >= 3
    /\ h_tx_ok = h_tx_calls
    /\ h_cancel_seen = "tx"

\* C10: scan_for_ssb returns, whatever the receive calls return, as long as
\* the clock advances; when no search reported found it returns false; and
\* a loop iteration that begins after the deadline starts no receive call.
C10_ScanTerminates ==
    /\ (pc = "scan_open") ~> (pc = "scan_returned")
    /\ []((pc = "scan_returned" /\ ~h_ever_found) => scan_ret = FALSE)
    /\ [][(pc = "scan_loop"
           /\ now - start_time > config.operation.scan_duration_sec)
              => pc' # "scan_recv"]_vars

\* the scan ran into its deadline with the flag unset and returned false
C10_Witness ==
    /\ pc = "scan_returned"
    /\ running
    /\ ~h_ever_found
    /\ scan_ret = FALSE
    /\ now - start_time > config.operation.scan_duration_sec
    /\ rx_stream = "stopped"

\* positions of main inside scan_for_ssb, and inside transmit_spoofed_ssb
ScanPcs == {"scan_open", "flush", "scan_loop", "scan_recv", "scan_search",
            "scan_exit"}
TxPcs   == {"tx_prepare", "tx_loop", "tx_send", "tx_after_loop", "tx_single",
            "tx_single_send", "tx_returned"}

\* C17: main returns 0 only when configuration load, RF and codec
\* initialization, the scan and the whole transmit stage succeeded, and 1
\* whenever one of them failed; a continuous campaign given up after 10
\* consecutive transmit errors is a transmission failure.
C17_ExitCodeReflectsFailure ==
    pc = "exit" =>
        /\ exit_code \in {0, 1}
        /\ exit_code = 0 <=> (rf_initialized /\ scan_ret /\ tx_ret /\ ~h_aborted)

\* C18: the stages are strictly ordered: modify_mib, encode_mib and transmit
\* are reached only after scan_for_ssb returned true with result.found; the
\* RX stream has been stopped whenever the TX stream has been started; and
\* once a transmit call has been made, main is never again inside
\* scan_for_ssb, where every receive and search call is made.
C18_StagesOrdered ==
    /\ (pc \in TxPcs \/ h_prepare # "none" \/ h_tx_calls > 0) =>
          (scan_ret /\ result_found /\ h_ever_found)
    /\ tx_stream # "idle" => rx_stream = "stopped"
    /\ (h_prepare # "none" \/ h_tx_calls > 0) =>
          (pc \in TxPcs \cup {"exit"} /\ pc # "tx_prepare")

\* a transmit call is in progress after a scan that found the beacon and
\* stopped the RX stream
C18_Witness ==
    /\ pc = "tx_send"
    /\ h_tx_calls > 1
    /\ tx_stream = "started"
    /\ rx_stream = "stopped"
    /\ result_found

\* C20: if encode_mib rejects the modified MIB, or generate_ssb yields zero
\* samples, transmit_spoofed_ssb returns false at once: start_tx and
\* transmit are never called, the preparation is not tried again, and main
\* returns 1.
C20_EncodingFailureIsFatal ==
    h_prepare \in {"encode_failed", "generate_failed"} =>
        /\ pc \in {"tx_returned", "exit"}
        /\ tx_ret = FALSE
        /\ tx_stream = "idle"
        /\ h_tx_calls = 0
        /\ pc = "exit" => exit_code = 1

\* the run ended with code 1 after a rejected encoding, TX never started
C20_Witness ==
    /\ pc = "exit"
    /\ h_prepare = "encode_failed"
    /\ exit_code = 1
    /\ tx_stream = "idle"
    /\ rx_stream = "stopped"

\* C21: a configuration load or validation failure ends the run before the
\* RF device is opened, and a failure of RF initialization (device open,
\* tuning, gain setting) or of codec initialization ends the run before any
\* stream is started or any sample is received: once a step has failed,
\* main is at its exit with code 1.
C21_InitFailureEndsRun ==
    /\ h_init = "config" => (pc = "exit" /\ exit_code = 1 /\ ~rf_initialized)
    /\ h_init \in {"rf_open", "rf_gain", "rf_tune", "codec"} =>
          /\ pc = "exit"
          /\ exit_code = 1
          /\ rx_stream = "idle"
          /\ tx_stream = "idle"
          /\ flush_i = 0
          /\ h_tx_calls = 0

\* C23: in continuous mode every transmit call has end-of-burst equal to
\* (burst_interval_us > 0): asserted on every call when the gap is non-zero
\* and on no call when it is zero.
C23_EndOfBurstFollowsGap ==
    (Continuous /\ pc = "tx_send") =>
        (is_end <=> config.attack.burst_interval_us > 0)

\* a later call of a campaign with no gap is made without end-of-burst
C23_Witness ==
    /\ Continuous
    /\ pc = "tx_send"
    /\ h_tx_calls > 1
    /\ config.attack.burst_interval_us = 0
    /\ ~is_end

\* C24: in single-shot mode exactly one transmit call is made, with
\* start-of-burst and end-of-burst both asserted; a negative result makes
\* transmit_spoofed_ssb return false and a non-negative one makes it return
\* true, the result being the sample count reported.
C24_SingleShot ==
    ~Continuous =>
        /\ h_tx_calls <= 1
        /\ pc = "tx_single_send" => (h_tx_calls = 1 /\ is_start /\ is_end)
        /\ (pc \in {"tx_returned", "exit"} /\ h_prepare = "ok") =>
              /\ h_tx_calls = 1
              /\ h_sob_calls = 1
              /\ is_start /\ is_end
              /\ tx_ret <=> nsent >= 0
              /\ pc = "exit" => (exit_code = 0 <=> nsent >= 0)

\* the single call sent no sample and the stage still reported success
C24_Witness ==
    /\ ~Continuous
    /\ pc = "exit"
    /\ h_tx_calls = 1
    /\ nsent = 0
    /\ tx_ret
    /\ exit_code = 0

\* C27: in every state of the scan the window cursor is within
\* 0..search_buffer_size; the search is invoked only with the cursor equal
\* to search_buffer_size (the number of samples it is given), and a receive
\* is only started with room left in the window.
C27_CursorWithinWindow ==
    /\ search_buffer_pos \in 0..search_buffer_size
    /\ pc = "scan_search" => search_buffer_pos = search_buffer_size
    /\ pc \in {"scan_loop", "scan_recv"} => search_buffer_pos < search_buffer_size

\* a search is under way on a full window, after the deadline clock moved
C27_Witness ==
    /\ pc = "scan_search"
    /\ search_buffer_pos = search_buffer_size
    /\ now > start_time
    /\ ~result_found

\* C30: a search that does not report found resets the cursor to 0 and goes
\* back to the loop head, from where a new receive is started unless the
\* flag or the deadline ends the scan; a search that reports found stops the
\* RX stream and makes scan_for_ssb return true, and from then on main is
\* never again inside scan_for_ssb, so that no receive or search follows.
C30_SearchOutcome ==
    /\ [][(pc = "scan_search" /\ pc' # pc) =>
             IF result_found'
             THEN pc' = "scan_returned" /\ scan_ret' /\ rx_stream' = "stopped"
             ELSE pc' = "scan_loop" /\ search_buffer_pos' = 0]_vars
    /\ [][(/\ pc = "scan_loop" /\ pc' # pc /\ running
           /\ ~(now - start_time > config.operation.scan_duration_sec))
             => pc' = "scan_recv"]_vars
    /\ [](h_ever_found =>
             (pc \notin ScanPcs /\ result_found /\ scan_ret
              /\ rx_stream = "stopped"))

\* the scan returned true from a search on a full window
C30_Witness ==
    /\ pc = "scan_returned"
    /\ result_found
    /\ scan_ret
    /\ rx_stream = "stopped"
    /\ search_buffer_pos = search_buffer_size
    /\ now > start_time

(***************************************************************************)
(* Properties of modify_mib and of the search (PureSpec)                   *)
(***************************************************************************)
MibDone == pure.op \in {"mib_once", "mib_twice"}

\* C11: for every mutation rule enabled in the attack config (cell-barred,
\* coreset0 index, search-space-0 index, intra-frequency reselection), the
\* corresponding field of the output of modify_mib equals the configured
\* override value, for every input record.
C11_EnabledRulesWriteValue ==
    MibDone =>
        /\ pure.attack.modify_cell_barred =>
              pure.out.mib.cell_barred = pure.attack.cell_barred_value
        /\ pure.attack.modify_coreset0_idx =>
              pure.out.mib.coreset0_idx = pure.attack.coreset0_idx_value
        /\ pure.attack.modify_ss0_idx =>
              pure.out.mib.ss0_idx = pure.attack.ss0_idx_value
        /\ pure.attack.modify_intra_freq_resel =>
              pure.out.mib.intra_freq_reselection =
                  pure.attack.intra_freq_resel_value

\* C12: for every rule that modify_mib implements and that is not enabled,
\* the corresponding output field equals the input field, and the fields
\* governed by no rule (sfn, ssb_offset, dmrs_typeA_pos, hrf,
\* intra_freq_reselection) pass through unchanged.
C12_OnlyEnabledFieldsChange ==
    MibDone =>
        /\ ~pure.attack.modify_cell_barred =>
              pure.out.mib.cell_barred = pure.mib.cell_barred
        /\ ~pure.attack.modify_coreset0_idx =>
              pure.out.mib.coreset0_idx = pure.mib.coreset0_idx
        /\ ~pure.attack.modify_ss0_idx =>
              pure.out.mib.ss0_idx = pure.mib.ss0_idx
        /\ ~pure.attack.modify_intra_freq_resel =>
              pure.out.mib.intra_freq_reselection =
                  pure.mib.intra_freq_reselection
        /\ pure.out.mib.hrf = pure.mib.hrf
        /\ pure.out.mib.sfn = pure.mib.sfn
        /\ pure.out.mib.ssb_offset = pure.mib.ssb_offset
        /\ pure.out.mib.dmrs_typeA_pos = pure.mib.dmrs_typeA_pos

\* a disabled rule met an input that differs from the configured value, and
\* the field kept the input's value
C12_Witness ==
    /\ pure.op = "mib_once"
    /\ ~pure.attack.modify_coreset0_idx
    /\ pure.attack.coreset0_idx_value # pure.mib.coreset0_idx
    /\ pure.out.mib.coreset0_idx = pure.mib.coreset0_idx
    /\ pure.attack.modify_ss0_idx
    /\ pure.out.mib.ss0_idx # pure.mib.ss0_idx

\* C13: whatever override flags and values are set, sfn, ssb_offset and
\* dmrs_typeA_pos of the output of modify_mib equal those of the input.
C13_TimingFieldsPreserved ==
    MibDone =>
        /\ pure.out.mib.sfn = pure.mib.sfn
        /\ pure.out.mib.ssb_offset = pure.mib.ssb_offset
        /\ pure.out.mib.dmrs_typeA_pos = pure.mib.dmrs_typeA_pos

\* every rule is enabled and changes its field, the timing fields are kept
C13_Witness ==
    /\ pure.op = "mib_once"
    /\ pure.attack.modify_cell_barred
    /\ pure.attack.modify_coreset0_idx
    /\ pure.attack.modify_ss0_idx
    /\ pure.out.mib.cell_barred # pure.mib.cell_barred
    /\ pure.out.mib.coreset0_idx # pure.mib.coreset0_idx
    /\ pure.out.mib.ss0_idx # pure.mib.ss0_idx
    /\ pure.out.mib.ssb_offset = pure.mib.ssb_offset
    /\ pure.mib.ssb_offset # pure.attack.ss0_idx_value

\* C14: modify_mib is idempotent: applied twice with the same config it
\* yields the same record (and the same return value) as applied once.
C14_Idempotent ==
    pure.op = "mib_twice" => pure.out2 = pure.out

\* the second application met a record that the first one had changed
C14_Witness ==
    /\ pure.op = "mib_twice"
    /\ pure.out.mib # pure.mib
    /\ pure.out2.mib = pure.out.mib
    /\ pure.attack.modify_cell_barred

\* C15: whenever modify_cell_barred is set, the output cell_barred is true,
\* for every input value of the flag and every cell_barred_value.
C15_CellBarredForcedTrue ==
    (MibDone /\ pure.attack.modify_cell_barred) =>
        pure.out.mib.cell_barred = TRUE

\* the input was not barred and the configured value is false: barred anyway
C15_Witness ==
    /\ pure.op = "mib_once"
    /\ pure.attack.modify_cell_barred
    /\ ~pure.attack.cell_barred_value
    /\ ~pure.mib.cell_barred
    /\ pure.out.mib.cell_barred

\* C16: with scan_for_target set, the search reports found only for a result
\* whose search and PBCH CRC succeeded and whose cell id equals target_pci;
\* with it unset, target_pci is ignored and every result whose search and
\* CRC succeeded is accepted, whatever target_pci is.
C16_TargetFilter ==
    pure.op = "search_out" =>
        LET decoded == pure.initialized /\ pure.search_ok /\ pure.crc
        IN  /\ pure.attack.scan_for_target =>
                (pure.out.found <=>
                    (decoded /\ pure.N_id = pure.attack.target_pci))
            /\ ~pure.attack.scan_for_target => (pure.out.found <=> decoded)
            /\ pure.out.found => pure.out.pci = pure.N_id

\* filter unset, target_pci = 0, a cell with another id is accepted
C16_Witness ==
    /\ pure.op = "search_out"
    /\ ~pure.attack.scan_for_target
    /\ pure.attack.target_pci = 0
    /\ pure.N_id # 0
    /\ pure.out.found

\* C19: if the MIB unpack of a detected beacon fails, the beacon is not
\* reported as found.
C19_UnpackFailureNotFound ==
    (pure.op = "search_out" /\ ~pure.unpack_ok) => ~pure.out.found

\* C22: validation rejects every configuration with a non-positive sample
\* rate, a non-positive RX or TX frequency, a pattern outside {A,B,C,D,E},
\* a subcarrier spacing outside {15,30}, a target cell id above 1007 or an
\* override index above 15, and accepts every other one; load_from_file,
\* having read a non-empty file, returns that verdict.
C22_ValidationVerdict ==
    pure.op = "validate_out" =>
        LET c == pure.cfg
            defect == \/ c.srate_hz <= 0
                      \/ c.rx_freq_hz <= 0
                      \/ c.tx_freq_hz <= 0
                      \/ c.pattern \notin {"A", "B", "C", "D", "E"}
                      \/ c.scs_khz \notin {15, 30}
                      \/ c.target_pci > 1007
                      \/ c.coreset0_idx_value > 15
                      \/ c.ss0_idx_value > 15
        IN  /\ pure.valid <=> ~defect
            /\ ~pure.map_empty => (pure.loaded <=> pure.valid)

\* a configuration with every limited field on its limit is accepted
C22_Witness ==
    /\ pure.op = "validate_out"
    /\ ~pure.map_empty
    /\ pure.cfg.target_pci = 1007
    /\ pure.cfg.coreset0_idx_value = 15
    /\ pure.cfg.ss0_idx_value = 15
    /\ pure.cfg.pattern = "E"
    /\ pure.loaded

\* C25: the burst buffer has exactly base_samples * burst_length_ms samples
\* and its sample i is base sample (i mod base_samples), for every base
\* length and every configured repeat count.
C25_BurstIsRepeatedBase ==
    pure.op = "burst_out" =>
        LET n == Len(pure.base)
        IN  /\ ~pure.out.crashed
            /\ ~Mul32(n, pure.burst_length).overflow
            /\ Len(pure.out.buf) = pure.out.nsamples
            /\ \A i \in 1..Len(pure.out.buf) :
                  pure.out.buf[i] = pure.base[((i - 1) % n) + 1]

\* the power of the normalized buffer, sum of (num/den)^2 over n samples,
\* as the fraction OutPowerNum / OutPowerDen of the squared RMS amplitude
RECURSIVE SumSqNum(_)
SumSqNum(buf) ==
    IF buf = <<>> THEN 0
    ELSE Head(buf).num * Head(buf).num + SumSqNum(Tail(buf))

OutPowerNum == SumSqNum(pure.out.buf)
OutPowerDen == Len(pure.out.buf) * pure.out.buf[1].den * pure.out.buf[1].den

\* the RMS amplitude of the normalized buffer is within 10 % of 0.7:
\* 0.63^2 <= OutPowerNum / OutPowerDen <= 0.77^2
RmsWithinTolerance ==
    /\ OutPowerNum * 10000 >= 3969 * OutPowerDen
    /\ OutPowerNum * 10000 <= 5929 * OutPowerDen

NonZeroInput == \E i \in 1..Len(pure.buf) : pure.buf[i] # 0

C28_FailedReceiveKeepsWindow ==
    (pure.op = "recv_out" /\ pure.nrecv < 0) =>
        /\ pure.out.window = WindowBefore
        /\ pure.out.pos = pure.pos
        /\ pure.out.sink = <<>>
        /\ ~pure.out.searched
        /\ pure.out.backoff

\* a receive failed with samples accumulated and the sink open
C28_Witness ==
    /\ pure.op = "recv_out"
    /\ pure.nrecv < 0
    /\ pure.pos > 0
    /\ pure.sink_on
    /\ pure.out.pos = pure.pos
    /\ pure.out.backoff

\* a short read: 0 <= nrecv < samples_per_iter
ShortRead == pure.op = "recv_out" /\ pure.nrecv >= 0 /\ pure.nrecv < samples_per_iter

\* C29 (as stated): a receive that returns k samples, 0 <= k < chunk size,
\* appends exactly those k samples at the cursor, advances the cursor by k
\* and leaves the samples already in the window as they were.
C29_ShortReadAppended ==
    ShortRead =>
        /\ pure.out.pos = pure.pos + pure.nrecv
        /\ \A i \in 1..pure.pos : pure.out.window[i] = WindowBefore[i]
        /\ \A j \in 1..pure.nrecv :
              /\ pure.pos + j <= search_buffer_size
              /\ pure.out.window[pure.pos + j] = RxBuffer[j]

\* C29 (amended): a short read of k samples appends the first
\* min(k, search_buffer_size - search_buffer_pos) of them at the cursor and
\* advances the cursor by that number; the samples that do not fit are
\* dropped; all other cells of the window keep their contents, and the sink,
\* when open, still receives all k samples.
C29_ShortReadAppendedUpToCapacity ==
    ShortRead =>
        LET c == Min(pure.nrecv, search_buffer_size - pure.pos)
        IN  /\ pure.out.pos = pure.pos + c
            /\ pure.out.pos <= search_buffer_size
            /\ \A i \in 1..search_buffer_size :
                  pure.out.window[i] =
                     IF i > pure.pos /\ i <= pure.pos + c
                     THEN RxBuffer[i - pure.pos] ELSE WindowBefore[i]
            /\ pure.sink_on /\ pure.nrecv > 0 =>
                  pure.out.sink = SubSeq(RxBuffer, 1, pure.nrecv)
            /\ pure.out.searched <=> pure.out.pos = search_buffer_size

\* a short read met a window with less room than samples: the window is
\* filled, the search follows, the last sample is not in the window
C29_Witness ==
    /\ ShortRead
    /\ pure.nrecv > search_buffer_size - pure.pos
    /\ pure.out.pos = search_buffer_size
    /\ pure.out.searched
    /\ \A i \in 1..search_buffer_size : pure.out.window[i] # RxBuffer[pure.nrecv]

(***************************************************************************)
(* Properties of the flush, the sink and the statistics                    *)
(***************************************************************************)
\* C31: after a successful start_rx exactly 10 flush receives are made
\* before the scan loop; during the flush the window cursor stays 0 and
\* nothing is written to the sink; the scan deadline is measured from the
\* clock read after the flush; when start_rx fails, scan_for_ssb returns
\* false without any receive call.
C31_FlushBeforeScan ==
    /\ [](pc = "flush" =>
             /\ rx_stream = "started"
             /\ flush_i <= FlushCount
             /\ search_buffer_pos = 0
             /\ ~h_sink_written)
    /\ [][(pc = "flush" /\ pc' = "scan_loop") =>
             /\ flush_i = FlushCount
             /\ search_buffer_pos' = 0
             /\ ~h_sink_written'
             /\ start_time' = now']_vars
    /\ [](pc \in {"scan_loop", "scan_recv", "scan_search"} =>
             flush_i = FlushCount)
    /\ []((pc = "scan_returned" /\ rx_stream = "idle") =>
             /\ scan_ret = FALSE
             /\ flush_i = 0
             /\ search_buffer_pos = 0
             /\ ~h_sink_written)

\* the scan loop starts after a flush during which the clock advanced
C31_Witness ==
    /\ pc = "scan_loop"
    /\ flush_i = FlushCount
    /\ now > 0
    /\ start_time = now
    /\ search_buffer_pos = 0
    /\ ~h_sink_written
    /\ ~h_ever_found

\* the part of a receive's outcome that acquisition goes on with
Acquired(out) ==
    [window |-> out.window, pos |-> out.pos, backoff |-> out.backoff,
     searched |-> out.searched]

\* C32: the sink never affects acquisition: for the same cursor and the same
\* receive result, the window, the cursor, the backoff and the decision to
\* search are the same whether the sink is disabled or failed to open, is
\* open, or fails on the write; and when the sink is open, a chunk with a
\* positive count is handed to it in arrival order, exactly the received
\* count of samples, and nothing is handed to it otherwise.
C32_SinkIsObservational ==
    pure.op = "recv_out" =>
        /\ \A f \in BOOLEAN, w \in BOOLEAN :
              Acquired(ReceiveChunk(WindowBefore, pure.pos, pure.nrecv, f, w))
                 = Acquired(pure.out)
        /\ (pure.sink_on /\ pure.nrecv > 0) =>
              /\ Len(pure.out.sink) = pure.nrecv
              /\ \A j \in 1..pure.nrecv : pure.out.sink[j] = RxBuffer[j]
        /\ (~pure.sink_on \/ pure.nrecv <= 0) => pure.out.sink = <<>>
        /\ pure.write_ok => pure.out.stored = pure.out.sink

\* a short chunk was handed to an open sink whose write failed, and the
\* window still took the chunk
C32_Witness ==
    /\ pure.op = "recv_out"
    /\ pure.sink_on
    /\ ~pure.write_ok
    /\ pure.nrecv > 0
    /\ pure.nrecv < samples_per_iter
    /\ Len(pure.out.sink) = pure.nrecv
    /\ pure.out.stored = <<>>
    /\ pure.out.pos = pure.pos + pure.nrecv

\* the statistics update under study has been made
StatsDone == pure.op = "stats_out"

\* burst counts and error counts a decision may be asked about
CountValues == {0, 1, StatsPeriod, 2 * StatsPeriod}

\* the periodic update, whatever the elapsed time (and so whatever the rate
\* and the throughput), leaves every decision of the loop as it was
UpdateKeepsDecisions ==
    \A e \in ElapsedValues :
        Decisions(pure.running, pure.attack,
                  PeriodicStats(pure.locals, FramesShown(pure.locals.tx_count),
                                SubframeSize, pure.attack.max_bursts, e).locals)
           = Decisions(pure.running, pure.attack, pure.locals)

\* C33 (as stated): only the consecutive-error counter is read by a
\* decision: with another burst count the loop continuation and the
\* start-of-burst and end-of-burst flags would be the same, and the periodic
\* update changes nothing the decisions read.
C33_OnlyErrorCounterRead ==
    StatsDone =>
        /\ \A c \in CountValues :
              LET d == Decisions(pure.running, pure.attack,
                                 [pure.locals EXCEPT !.tx_count = c])
                  d0 == Decisions(pure.running, pure.attack, pure.locals)
              IN  /\ d.continues = d0.continues
                  /\ d.is_start = d0.is_start
                  /\ d.is_end = d0.is_end
        /\ UpdateKeepsDecisions
        /\ Decisions(pure.running, pure.attack, pure.out.locals)
              = Decisions(pure.running, pure.attack, pure.locals)

\* C33 (amended): the burst counter and the consecutive-error counter are
\* the statistics read by decisions: the abort reads the error counter only,
\* the loop continuation and the start-of-burst flag read the burst counter
\* and not the error counter (continuation is count < (int)max_bursts or no
\* limit, start of burst is count = 0), the end-of-burst flag reads neither;
\* the elapsed time, the rate and the throughput are read by no decision, and
\* the periodic update changes no variable the decisions read.
C33_CountersAreRead ==
    StatsDone =>
        LET d0 == Decisions(pure.running, pure.attack, pure.locals)
        IN  /\ \A c \in CountValues :
                  LET d == Decisions(pure.running, pure.attack,
                                     [pure.locals EXCEPT !.tx_count = c])
                  IN  /\ d.abort = d0.abort
                      /\ d.is_end = d0.is_end
                      /\ d.is_start = (c = 0)
                      /\ d.continues =
                            (pure.running /\
                               (U64IsZero(pure.attack.max_bursts)
                                  \/ c < ToInt32(pure.attack.max_bursts)))
            /\ \A k \in 0..max_consecutive_errors :
                  LET d == Decisions(pure.running, pure.attack,
                                     [pure.locals EXCEPT !.consecutive_errors = k])
                  IN  /\ d.continues = d0.continues
                      /\ d.is_start = d0.is_start
                      /\ d.is_end = d0.is_end
                      /\ d.abort = (k >= max_consecutive_errors)
            /\ UpdateKeepsDecisions
            /\ pure.out.locals = pure.locals
            /\ Decisions(pure.running, pure.attack, pure.out.locals) = d0

\* the dashboard was printed at the burst limit: the loop ends because of
\* the burst count it has just reported
C33_Witness ==
    /\ StatsDone
    /\ pure.running
    /\ Len(pure.out.shown) = 1
    /\ pure.out.shown[1].bursts = 2 * StatsPeriod
    /\ pure.out.shown[1].percent = 100
    /\ pure.out.frame = 2
    /\ ~Decisions(pure.running, pure.attack, pure.out.locals).continues
    /\ Decisions(pure.running, pure.attack,
                 [pure.out.locals EXCEPT !.tx_count = 1]).continues

(***************************************************************************)
(* Properties of the continuous loop's termination (TxLiveSpec)            *)
(***************************************************************************)
\* n <= 10 * max_bursts
WithinTenTimes(n, max_bursts) ==
    max_bursts.hi > 0 \/ n <= max_consecutive_errors * max_bursts.lo

\* the limits whose worst case fits the modelled number of calls
ModelledLimits ==
    {u \in MaxBurstsValues :
        ToInt32(u) <= MaxTxCalls \div max_consecutive_errors}

WorstCaseModelled == config.attack.max_bursts \in ModelledLimits

\* C34: continuous mode with max_bursts = N > 0: the loop is left, whatever
\* the transmit calls return and whether or not cancellation is signalled,
\* and never more than 10 * N transmit calls are made.
C34_ContinuousLoopTerminates ==
    /\ (pc = "tx_loop" /\ Continuous /\ ~Unlimited /\ WorstCaseModelled)
          ~> (pc = "tx_after_loop")
    /\ []((Continuous /\ ~Unlimited) =>
             WithinTenTimes(h_tx_calls, config.attack.max_bursts))

\* a limit of one burst was reached with the tenth call, after nine failures,
\* without cancellation
C34_Witness ==
    /\ pc = "tx_after_loop"
    /\ Continuous
    /\ U64EqualsNat(config.attack.max_bursts, 1)
    /\ running
    /\ h_tx_calls = max_consecutive_errors
    /\ h_max_streak = max_consecutive_errors - 1
    /\ h_tx_ok = 1
    /\ ~h_aborted

(***************************************************************************)
(* Properties of the burst limit and of the burst count (Spec)             *)
(***************************************************************************)
\* C35: for every max_bursts from 1 to 2^64-1, the continuous loop is not
\* left for the burst limit (that is, with the flag set and from the while
\* condition) before the burst counter equals max_bursts.
C35_LimitHonoursWholeRange ==
    [][(pc = "tx_loop" /\ pc' = "tx_after_loop" /\ running /\ ~Unlimited) =>
          U64EqualsNat(config.attack.max_bursts, tx_count)]_vars

(***************************************************************************)
(* Properties of the count of one transmit call (PureSpec)                 *)
(***************************************************************************)
\* a transmit call returned fewer samples than requested, and no error
ShortSend ==
    pure.op = "send_out" /\ pure.n >= 0 /\ pure.n < pure.requested

\* C36 (as stated): a transmit call that returns fewer samples than
\* requested (0 included) does not increment the burst counter and does not
\* reset the consecutive-error counter.
C36_ShortSendNotCounted ==
    ShortSend =>
        /\ pure.out.tx_count = pure.locals.tx_count
        /\ pure.locals.consecutive_errors > 0 => pure.out.consecutive_errors > 0

\* C36 (amended): a transmit call counts as one sent burst whenever it
\* returns a non-negative number of samples, the whole buffer or fewer (0
\* included): the burst counter is incremented and the consecutive-error
\* counter reset; only a negative result leaves the burst counter as it was
\* and increments the error counter.
C36_NonNegativeSendCounted ==
    pure.op = "send_out" =>
        IF pure.n >= 0
        THEN /\ pure.out.tx_count = pure.locals.tx_count + 1
             /\ pure.out.consecutive_errors = 0
             /\ ~pure.out.abort
        ELSE /\ pure.out.tx_count = pure.locals.tx_count
             /\ pure.out.consecutive_errors = pure.locals.consecutive_errors + 1
             /\ pure.out.abort <=>
                   pure.out.consecutive_errors >= max_consecutive_errors

\* a call that sent nothing after nine errors in a row was counted as a
\* burst, and the error counter was reset
C36_Witness ==
    /\ pure.op = "send_out"
    /\ pure.n = 0
    /\ pure.requested > 0
    /\ pure.locals.consecutive_errors = max_consecutive_errors - 1
    /\ pure.out.tx_count = pure.locals.tx_count + 1
    /\ pure.out.consecutive_errors = 0

(***************************************************************************)
(* Properties of the samples kept by the window (PureSpec)                 *)
(***************************************************************************)
\* number of cells of the window that hold the sample v
Occurrences(window, v) ==
    Cardinality({i \in 1..search_buffer_size : window[i] = v})

\* a receive returned a chunk with a positive count
ChunkReceived == pure.op = "recv_out" /\ pure.nrecv > 0

\* C37 (as stated): no received sample is lost: every sample of a chunk
\* received with a positive count is in exactly one cell of the window that
\* is searched next (or of the partial window), also when the chunk arrives
\* with fewer free cells than its count.
C37_NoSampleLost ==
    ChunkReceived =>
        \A j \in 1..pure.nrecv :
            Occurrences(pure.out.window, RxBuffer[j]) = 1

\* C37 (amended): of a chunk received with a positive count k, the first
\* min(k, search_buffer_size - search_buffer_pos) samples are each in exactly
\* one cell of the window, after the samples accumulated before, which all
\* stay; the samples that do not fit are in no cell, and they are not
\* carried over, because the window is then full, is searched, and the next
\* window starts at cursor 0.  A chunk that fits is kept whole.
C37_SamplesKeptUpToCapacity ==
    ChunkReceived =>
        LET free == search_buffer_size - pure.pos
            kept == Min(pure.nrecv, free)
        IN  /\ \A j \in 1..pure.nrecv :
                  Occurrences(pure.out.window, RxBuffer[j]) =
                     IF j <= kept THEN 1 ELSE 0
            /\ \A i \in 1..pure.pos : pure.out.window[i] = WindowBefore[i]
            /\ pure.nrecv <= free => pure.out.pos = pure.pos + pure.nrecv
            /\ pure.nrecv > free =>
                  /\ pure.out.searched
                  /\ CursorAfterSearch(pure.out.pos) = 0

\* a full-size chunk met a window with one free cell: one sample was kept,
\* the others are in no cell, and the window is searched
C37_Witness ==
    /\ ChunkReceived
    /\ pure.nrecv = samples_per_iter
    /\ pure.pos = search_buffer_size - 1
    /\ Occurrences(pure.out.window, RxBuffer[1]) = 1
    /\ Occurrences(pure.out.window, RxBuffer[samples_per_iter]) = 0
    /\ pure.out.searched

(***************************************************************************)
(* Properties of the value returned by modify_mib (PureSpec)               *)
(***************************************************************************)
\* C38: modify_mib returns true if and only if at least one of the four
\* override flags (cell-barred, coreset0 index, search-space-0 index,
\* intra-frequency reselection) is enabled, whatever the input record and
\* the override values.
C38_ModifiedIffAnyFlag ==
    pure.op = "mib_once" =>
        (pure.out.modified <=>
            \/ pure.attack.modify_cell_barred
            \/ pure.attack.modify_coreset0_idx
            \/ pure.attack.modify_ss0_idx
            \/ pure.attack.modify_intra_freq_resel)

(***************************************************************************)
(* Properties of the analyzer's window loop (AnalyzerSpec)                 *)
(***************************************************************************)
\* C39: the analyzer's window loop terminates for every sample count and
\* every window size: each iteration strictly increases the offset, the
\* summary is reached, and a file shorter than one window is searched zero
\* times.
C39_WindowLoopTerminates ==
    /\ [][(pure.op = "analyzer_loop" /\ pure'.op = "analyzer_loop") =>
             pure'.offset > pure.offset]_vars
    /\ (pure.op = "analyzer_loop") ~> (pure.op = "analyzer_done")
    /\ []((pure.op = "analyzer_done" /\ pure.size < pure.window_samples) =>
             pure.window_count = 0)

(***************************************************************************)
(* Properties of the RfHandler's lifetime (HandlerSpec)                    *)
(***************************************************************************)
\* the state of a handler, alive or destroyed
IsHandler == pure.op \in {"handler_alive", "handler_destroyed"}

\* every successful open is matched by at most one close, the device is
\* open exactly while the handler is initialized, and after the destructor
\* every open has been closed
OpensMatchCloses ==
    IsHandler =>
        /\ pure.h_closes <= pure.h_opens
        /\ pure.h_opens - pure.h_closes = (IF pure.rf_device = "open" THEN 1 ELSE 0)
        /\ pure.op = "handler_alive" => (pure.initialized <=> pure.rf_device = "open")
        /\ pure.op = "handler_destroyed" => pure.h_opens = pure.h_closes

\* init on an initialized handler returns false and opens nothing; the
\* destructor closes the device only if the handler is initialized
NoReopenNoStrayClose ==
    /\ (pure.op = "handler_alive" /\ pure.initialized
        /\ pure'.op = "handler_alive") =>
          /\ pure'.ret = FALSE
          /\ pure'.h_opens = pure.h_opens
          /\ pure'.h_closes = pure.h_closes
          /\ pure'.initialized
    /\ (pure.op = "handler_alive" /\ pure'.op = "handler_destroyed") =>
          pure'.h_closes = pure.h_closes + (IF pure.initialized THEN 1 ELSE 0)

\* C40: over the lifetime of an RfHandler every successful open is matched
\* by exactly one close and the device is never closed without having been
\* opened; a failure at any step of init after the open (gain setting,
\* sample rate, tuning) closes the device and leaves the handler
\* uninitialized; init on an initialized handler returns false without
\* reopening; the destructor closes only an initialized handler.
C40_OpenClosePaired ==
    /\ []OpensMatchCloses
    /\ [][NoReopenNoStrayClose]_vars
    /\ []((IsHandler /\ pure.h_failure \in {"rf_gain", "rf_tune"}) =>
             /\ ~pure.initialized
             /\ pure.rf_device = "closed"
             /\ pure.ret = FALSE)

====
